---- MODULE Spec2Model ----
(***************************************************************************)
(* Energy & Loot Engine of the energy service extension.                   *)
(*                                                                         *)
(* The model follows pkg/service (EnergyServiceServerImpl) and pkg/storage *)
(* (CloudsaveStorage).  Every handler is a sequence of steps, one step per *)
(* storage call or clock read, so that the clock can advance and other     *)
(* requests can run between the steps exactly where the Go code allows it. *)
(***************************************************************************)
EXTENDS Integers, Sequences, FiniteSets, TLC

(***************************************************************************)
(* Program constants.                                                      *)
(***************************************************************************)
DefaultMaxEnergy == 100
DefaultRegenRateSeconds == 300
DefaultStartingEnergy == 100
DefaultLevel == 1

MaxInt32 == 2147483647
MinInt32 == (-2147483647) - 1

actionEnergyCosts == [fight |-> 10, explore |-> 5]

refillAmounts == [daily |-> 50, ad |-> 20, purchase |-> 100, debug |-> 100]

LootEntry(id, name, min, max, w) ==
    [ItemID |-> id, ItemName |-> name, MinQty |-> min, MaxQty |-> max, Weight |-> w]

lootTables ==
    [fight |-> << LootEntry("gold", "Gold", 5, 20, 50),
                  LootEntry("iron_ore", "Iron Ore", 1, 3, 30),
                  LootEntry("gem", "Gem", 1, 1, 10),
                  LootEntry("sword_shard", "Sword Shard", 1, 2, 10) >>,
     explore |-> << LootEntry("gold", "Gold", 2, 10, 40),
                    LootEntry("herb", "Herb", 1, 5, 35),
                    LootEntry("map_piece", "Map Piece", 1, 1, 15),
                    LootEntry("gem", "Gem", 1, 1, 10) >>]

(***************************************************************************)
(* Bounds of the model.                                                    *)
(***************************************************************************)
\* number of requests started in one behaviour
MaxOps == 2
\* number of clock advances in one behaviour
MaxTicks == 3
\* number of requests started in one behaviour with failing storage calls
MaxFaultOps == 1
\* number of requests started in one behaviour with concurrent requests
MaxConcOps == 2
\* number of clock advances in one behaviour with concurrent requests
MaxConcTicks == 1
\* how far past the end of an operation the regeneration is followed
Horizon == 900

\* the regeneration function on its own: the checkpoint of the records it is
\* applied to, and how long before and after the checkpoint the clock starts
DeriveCheckpoint == 20
DeriveBefore == 9
DeriveAfter == 14
\* the clock advances between two applications: how often and by how much
MaxDeriveTicks == 2
MaxDeriveStep == 5

\* the loot roller on its own: the largest raw draw of the random source for
\* the number of drops and the weighted roll, and for the quantity
MaxRawDraw == 99
MaxRawQuantity == 16

\* get energy on its own: requests started and clock advances in one behaviour
MaxGetOps == 2
MaxGetTicks == 1

\* the public endpoints behind the auth interceptor: requests started and
\* clock advances in one behaviour
MaxAuthOps == 1
MaxAuthTicks == 1

\* the clock value of the initial state, and the amounts it advances by
T0 == 1000
TickSteps == {150}

Players == {"alice"}
Procs == {1, 2}

(***************************************************************************)
(* Go integer arithmetic.                                                  *)
(***************************************************************************)
\* int32 addition: wraps around modulo 2^32
Add32(a, b) ==
    IF a > 0 /\ b > 0 /\ a > MaxInt32 - b
    THEN ((a - MaxInt32) - 1) + ((b - MaxInt32) - 1)
    ELSE IF a < 0 /\ b < 0 /\ a < MinInt32 - b
         THEN ((a + MaxInt32) + 1) + ((b + MaxInt32) + 1)
         ELSE a + b

\* int32 subtraction: wraps around modulo 2^32
Sub32(a, b) ==
    IF b = MinInt32
    THEN IF a >= 0 THEN (a - MaxInt32) - 1 ELSE (a + MaxInt32) + 1
    ELSE Add32(a, -b)

Abs(a) == IF a < 0 THEN -a ELSE a

\* the int64 value a * b - c with 0 <= c < b.  The integers of the model
\* checker are 32 bits wide: a value beyond them is shown as the nearest
\* 32-bit integer (this happens only for an energy that has wrapped around)
MulSub64(a, b, c) ==
    IF a > MinInt32 /\ Abs(a) <= (MaxInt32 \div b) - 1
    THEN a * b - c
    ELSE IF a < 0 THEN MinInt32 ELSE MaxInt32

\* Go's / truncates toward zero (b > 0 in every use)
GoDiv(a, b) == IF a >= 0 THEN a \div b ELSE -((-a) \div b)

\* Go's % takes the sign of the dividend
GoRem(a, b) == IF a >= 0 THEN a % b ELSE -((-a) % b)

Min(a, b) == IF a < b THEN a ELSE b

(***************************************************************************)
(* Records.  Nil is Go's nil pointer; NilMap is a nil or empty map (the     *)
(* code reads both the same way and JSON stores nil as null).              *)
(***************************************************************************)
Nil == [nil |-> TRUE]
NilMap == <<>>

EnergyData(userId, cur, max, last, rate, level, inv) ==
    [UserId |-> userId, CurrentEnergy |-> cur, MaxEnergy |-> max,
     LastUpdateTime |-> last, RegenRateSeconds |-> rate, Level |-> level,
     Inventory |-> inv]

\* inventory[id] with Go's zero value for a missing key
Qty(inv, id) == IF id \in DOMAIN inv THEN inv[id] ELSE 0

\* inventory[item.ItemId] = item.Quantity (mutation of AddItem)
AddItemOverwrite(inv, id, q) ==
    [k \in (DOMAIN inv) \cup {id} |-> IF k = id THEN q ELSE inv[k]]

\* inventory[item.ItemId] += item.Quantity
AddItem(inv, id, q) ==
    [k \in (DOMAIN inv) \cup {id} |-> IF k = id THEN Add32(Qty(inv, id), q) ELSE inv[k]]

RECURSIVE AddLoot(_, _)
AddLoot(inv, loot) ==
    IF loot = <<>> THEN inv
    ELSE AddLoot(AddItem(inv, Head(loot).ItemId, Head(loot).Quantity), Tail(loot))

(***************************************************************************)
(* Regeneration function.                                                  *)
(***************************************************************************)
\* a regeneration that is not capped (mutation of calculateEnergyState)
calculateEnergyStateUncapped(data, now) ==
    LET elapsedSeconds == now - data.LastUpdateTime
        regenPoints == IF data.RegenRateSeconds > 0 /\ elapsedSeconds > 0
                       THEN GoDiv(elapsedSeconds, data.RegenRateSeconds)
                       ELSE 0
        currentEnergy == Add32(data.CurrentEnergy, regenPoints)
    IN  [UserId |-> data.UserId, CurrentEnergy |-> currentEnergy,
         MaxEnergy |-> data.MaxEnergy, LastUpdateTime |-> data.LastUpdateTime,
         RegenRateSeconds |-> data.RegenRateSeconds, NextRegenTime |-> 0,
         EnergyToMax |-> Sub32(data.MaxEnergy, currentEnergy), TimeToMaxSeconds |-> 0]

\* a regeneration that also runs backwards, without the check of
\* elapsedSeconds > 0 (mutation of calculateEnergyState)
calculateEnergyStateNoElapsedCheck(data, now) ==
    LET regenPoints == GoDiv(now - data.LastUpdateTime, data.RegenRateSeconds)
        sum == Add32(data.CurrentEnergy, regenPoints)
        currentEnergy == IF sum > data.MaxEnergy THEN data.MaxEnergy ELSE sum
    IN  [UserId |-> data.UserId, CurrentEnergy |-> currentEnergy,
         MaxEnergy |-> data.MaxEnergy, LastUpdateTime |-> data.LastUpdateTime,
         RegenRateSeconds |-> data.RegenRateSeconds, NextRegenTime |-> 0,
         EnergyToMax |-> Sub32(data.MaxEnergy, currentEnergy), TimeToMaxSeconds |-> 0]

\* a regeneration by the remainder instead of the quotient (mutation of
\* calculateEnergyState)
calculateEnergyStateByRemainder(data, now) ==
    LET elapsedSeconds == now - data.LastUpdateTime
        regenPoints == IF data.RegenRateSeconds > 0 /\ elapsedSeconds > 0
                       THEN GoRem(elapsedSeconds, data.RegenRateSeconds)
                       ELSE 0
        sum == Add32(data.CurrentEnergy, regenPoints)
        currentEnergy == IF sum > data.MaxEnergy THEN data.MaxEnergy ELSE sum
    IN  [UserId |-> data.UserId, CurrentEnergy |-> currentEnergy,
         MaxEnergy |-> data.MaxEnergy, LastUpdateTime |-> data.LastUpdateTime,
         RegenRateSeconds |-> data.RegenRateSeconds, NextRegenTime |-> 0,
         EnergyToMax |-> Sub32(data.MaxEnergy, currentEnergy), TimeToMaxSeconds |-> 0]

calculateEnergyState(data, now) ==
    LET elapsedSeconds == now - data.LastUpdateTime
        regenPoints == IF data.RegenRateSeconds > 0 /\ elapsedSeconds > 0
                       THEN GoDiv(elapsedSeconds, data.RegenRateSeconds)
                       ELSE 0
        sum == Add32(data.CurrentEnergy, regenPoints)
        currentEnergy == IF sum > data.MaxEnergy THEN data.MaxEnergy ELSE sum
        energyToMax == Sub32(data.MaxEnergy, currentEnergy)
        below == currentEnergy < data.MaxEnergy
        usedSeconds == GoRem(elapsedSeconds, data.RegenRateSeconds)
    IN  [UserId |-> data.UserId,
         CurrentEnergy |-> currentEnergy,
         MaxEnergy |-> data.MaxEnergy,
         LastUpdateTime |-> data.LastUpdateTime,
         RegenRateSeconds |-> data.RegenRateSeconds,
         NextRegenTime |-> IF below THEN now + (data.RegenRateSeconds - usedSeconds) ELSE 0,
         EnergyToMax |-> energyToMax,
         TimeToMaxSeconds |-> IF below
                              THEN MulSub64(energyToMax, data.RegenRateSeconds, usedSeconds)
                              ELSE 0]

(***************************************************************************)
(* Loot roller.  The random source is a sequence of raw draws; Intn(n) of   *)
(* a raw draw d is d % n, so every result lies in [0, n).                   *)
(***************************************************************************)
RECURSIVE SumWeights(_)
SumWeights(table) ==
    IF table = <<>> THEN 0 ELSE Head(table).Weight + SumWeights(Tail(table))

\* a walk that compares before it adds the weight of the entry (mutation of
\* Walk)
RECURSIVE WalkCompareFirst(_, _, _, _)
WalkCompareFirst(table, i, cumulative, roll) ==
    IF i > Len(table) THEN 0
    ELSE IF roll < cumulative THEN i
         ELSE WalkCompareFirst(table, i + 1, cumulative + table[i].Weight, roll)

\* the walk of the inner loop: index of the first entry with roll < cumulative,
\* 0 when the loop ends without a selection
RECURSIVE Walk(_, _, _, _)
Walk(table, i, cumulative, roll) ==
    IF i > Len(table) THEN 0
    ELSE IF roll < cumulative + table[i].Weight THEN i
         ELSE Walk(table, i + 1, cumulative + table[i].Weight, roll)

\* a quantity drawn from one value too many, MinQty + Int31n(MaxQty - MinQty
\* + 2), also for an entry with MaxQty = MinQty (mutation of RollDrops)
RECURSIVE RollDropsWideQuantity(_, _, _, _)
RollDropsWideQuantity(table, rng, pos, left) ==
    IF left = 0 THEN <<>>
    ELSE LET roll == rng[pos] % SumWeights(table)
             sel == Walk(table, 1, 0, roll)
         IN  IF sel = 0 THEN RollDropsWideQuantity(table, rng, pos + 1, left - 1)
             ELSE LET entry == table[sel]
                      qty == entry.MinQty + (rng[pos + 1] % (entry.MaxQty - entry.MinQty + 2))
                      item == [ItemId |-> entry.ItemID, ItemName |-> entry.ItemName,
                               Quantity |-> qty]
                  IN  <<item>> \o RollDropsWideQuantity(table, rng, pos + 2, left - 1)

\* the draws one drop uses: one for the roll, one more when MaxQty > MinQty
RECURSIVE RollDrops(_, _, _, _)
RollDrops(table, rng, pos, left) ==
    IF left = 0 THEN <<>>
    ELSE LET roll == rng[pos] % SumWeights(table)
             sel == Walk(table, 1, 0, roll)
         IN  IF sel = 0 THEN RollDrops(table, rng, pos + 1, left - 1)
             ELSE LET entry == table[sel]
                      ranged == entry.MaxQty > entry.MinQty
                      qty == IF ranged
                             THEN entry.MinQty + (rng[pos + 1] % (entry.MaxQty - entry.MinQty + 1))
                             ELSE entry.MinQty
                      item == [ItemId |-> entry.ItemID, ItemName |-> entry.ItemName,
                               Quantity |-> qty]
                  IN  <<item>> \o RollDrops(table, rng, IF ranged THEN pos + 2 ELSE pos + 1,
                                            left - 1)

rollLoot(actionType, rng) ==
    LET table == IF actionType \in DOMAIN lootTables
                 THEN lootTables[actionType]
                 ELSE lootTables["fight"]
        numDrops == (rng[1] % 3) + 1
    IN  RollDrops(table, rng, 2, numDrops)

\* the random sequences the engine's requests are run with
EngineRngs == { <<0, 95, 0, 0, 0, 0, 0>>,
                <<1, 10, 2, 85, 0, 0, 0>>,
                <<2, 45, 15, 99, 1, 45, 3>> }

(***************************************************************************)
(* Requests.                                                               *)
(***************************************************************************)
ActionTypes == {"fight", "explore", "fly"}
Sources == {"daily", "ad", "purchase", "debug", "gift"}
Amounts == {-5, 0, 10, 150, MaxInt32}
ConfigMaxEnergies == {0, 50}
ConfigRegenRates == {0, 100}

Request(op, userId, actionType, source, amount, maxEnergy, regenRate) ==
    [op |-> op, UserId |-> userId, ActionType |-> actionType, Source |-> source,
     Amount |-> amount, MaxEnergy |-> maxEnergy, RegenRateSeconds |-> regenRate]

NoRequest == Request("", "", "", "", 0, 0, 0)

Requests ==
    UNION { { Request(op, u, "", "", 0, 0, 0) :
                op \in {"GetMyEnergy", "GetMyInventory", "GetMyEnergyConfig",
                        "GetEnergy", "GetEnergyConfig", "ResetEnergy"} }
            \cup { Request("ConsumeMyEnergy", u, a, "", 0, 0, 0) : a \in ActionTypes }
            \cup { Request("RefillMyEnergy", u, "", s, 0, 0, 0) : s \in Sources }
            \cup { Request("ConsumeEnergy", u, "", "", n, 0, 0) : n \in Amounts }
            \cup { Request("RefillEnergy", u, "", "", n, 0, 0) : n \in Amounts }
            \cup { Request("UpdateEnergyConfig", u, "", "", 0, m, r) :
                     m \in ConfigMaxEnergies, r \in ConfigRegenRates }
            \cup { Request("UpdateEnergyConfig", u, "", "", 0, -1, -1) }
          : u \in Players }

(***************************************************************************)
(* State.                                                                  *)
(***************************************************************************)
VARIABLES
    store,   \* CloudSave: the record of each player, Nil when there is none
    clock,   \* time.Now().Unix()
    ticks,   \* clock advances so far
    ops,     \* requests started so far
    pc,      \* position of each request handler
    req,     \* the request each handler serves
    loc,     \* the handler's local variables
    ret,     \* the handler's response, once pc = "done"
    hist     \* what the handler has done to the storage so far

vars == <<store, clock, ticks, ops, pc, req, loc, ret, hist>>

\* table, numDrops, i: the locals of rollLoot
NoLocals == [data |-> Nil, energyState |-> Nil, currentData |-> Nil, now |-> 0,
             updatedData |-> Nil, loot |-> <<>>, table |-> <<>>, numDrops |-> 0, i |-> 0]

\* code: "" before the handler returns, then "OK" or the gRPC error code
NoResponse == [code |-> "", Success |-> FALSE, EnergyState |-> Nil, Loot |-> <<>>,
               Config |-> Nil, Items |-> NilMap]

\* pre: the stored record when the request arrived; seq: its arrival number;
\* gets, puts: storage calls issued; initAt, calcAt, retAt: the clock when the
\* handler built the record of a new player, derived the state it decides on
\* and derived the state it returns
NoHistory == [pre |-> Nil, seq |-> 0, gets |-> 0, puts |-> 0, readFailed |-> FALSE,
              writeFailed |-> FALSE, initAt |-> 0, calcAt |-> 0, retAt |-> 0]

\* the records the storage holds when the service starts: none, or a record
\* an earlier run of the engine has written
InitRecords(u) ==
    { Nil,
      EnergyData(u, 100, 100, T0, 300, 1, NilMap),
      EnergyData(u, 50, 100, T0 - 450, 300, 1, [gold |-> 7]),
      EnergyData(u, 5, 100, T0, 300, 1, NilMap) }

Init ==
    /\ store \in { f \in [Players -> UNION { InitRecords(u) : u \in Players }] :
                     \A u \in Players : f[u] \in InitRecords(u) }
    /\ clock = T0
    /\ ticks = 0
    /\ ops = 0
    /\ pc = [p \in Procs |-> "idle"]
    /\ req = [p \in Procs |-> NoRequest]
    /\ loc = [p \in Procs |-> NoLocals]
    /\ ret = [p \in Procs |-> NoResponse]
    /\ hist = [p \in Procs |-> NoHistory]

(***************************************************************************)
(* Storage (CloudsaveStorage).  outcome is what CloudSave answers: "ok",    *)
(* "notfound" (no record under the key) or "error" (any other failure).     *)
(***************************************************************************)
\* what CloudSave can answer to a read of the record of u
GetOutcomes(u) == IF store[u] = Nil THEN {"notfound", "error"} ELSE {"ok", "error"}

\* a read that never finds the record (mutation of GetEnergyData)
GetEnergyDataNeverFound(u, outcome) == [data |-> Nil, err |-> ""]

\* every error of the CloudSave call is answered with (nil, nil)
GetEnergyData(u, outcome) ==
    IF outcome = "ok" THEN [data |-> store[u], err |-> ""]
    ELSE [data |-> Nil, err |-> ""]

\* a write that fails after it has stored the record (mutation of
\* SaveEnergyData)
SaveEnergyDataStoredOnError(u, data, outcome) ==
    IF outcome = "ok" THEN [stored |-> data, err |-> ""]
    ELSE [stored |-> data, err |-> "Internal"]

SaveEnergyData(u, data, outcome) ==
    IF outcome = "ok" THEN [stored |-> data, err |-> ""]
    ELSE [stored |-> store[u], err |-> "Internal"]

(***************************************************************************)
(* The environment: the clock advances.                                    *)
(***************************************************************************)
Advance(limit) ==
    /\ ticks < limit
    /\ \E d \in TickSteps : clock' = clock + d
    /\ ticks' = ticks + 1
    /\ UNCHANGED <<store, ops, pc, req, loc, ret, hist>>

Tick == Advance(MaxTicks)

(***************************************************************************)
(* Handlers.                                                               *)
(***************************************************************************)
Fail(code) == [NoResponse EXCEPT !.code = code]

\* a check that lets the amount 0 through (mutation of ValidRequest)
ValidRequestZeroAmount(r) ==
    CASE r.op = "ConsumeMyEnergy" -> r.ActionType \in DOMAIN actionEnergyCosts
      [] r.op = "RefillMyEnergy" -> r.Source \in DOMAIN refillAmounts
      [] r.op \in {"ConsumeEnergy", "RefillEnergy"} -> ~(r.Amount < 0)
      [] OTHER -> TRUE

\* the checks a handler makes before it reads any state
ValidRequest(r) ==
    CASE r.op = "ConsumeMyEnergy" -> r.ActionType \in DOMAIN actionEnergyCosts
      [] r.op = "RefillMyEnergy" -> r.Source \in DOMAIN refillAmounts
      [] r.op \in {"ConsumeEnergy", "RefillEnergy"} -> ~(r.Amount <= 0)
      [] OTHER -> TRUE

FirstStep(r) ==
    CASE r.op \in {"GetMyInventory", "GetMyEnergyConfig", "GetEnergyConfig"} -> "read"
      [] r.op = "ResetEnergy" -> "now"
      [] OTHER -> "goc_get"

\* a request arrives and the handler runs up to its first storage call
Begin(p, r, limit) ==
    /\ pc[p] = "idle"
    /\ ops < limit
    /\ ops' = ops + 1
    /\ req' = [req EXCEPT ![p] = r]
    /\ hist' = [hist EXCEPT ![p] = [NoHistory EXCEPT !.pre = store[r.UserId],
                                                      !.seq = ops + 1]]
    /\ loc' = [loc EXCEPT ![p] = NoLocals]
    /\ IF ValidRequest(r)
       THEN /\ pc' = [pc EXCEPT ![p] = FirstStep(r)]
            /\ ret' = [ret EXCEPT ![p] = NoResponse]
       ELSE /\ pc' = [pc EXCEPT ![p] = "done"]
            /\ ret' = [ret EXCEPT ![p] = Fail("InvalidArgument")]
    /\ UNCHANGED <<store, clock, ticks>>

\* requests served one after the other
Start(p) ==
    /\ p = 1
    /\ \A q \in Procs : pc[q] = "idle"
    /\ \E r \in Requests : Begin(p, r, MaxOps)

\* getOrCreateEnergyState: the read
GocGet(p, outcome) ==
    /\ pc[p] = "goc_get"
    /\ outcome \in GetOutcomes(req[p].UserId)
    /\ LET got == GetEnergyData(req[p].UserId, outcome)
       IN  /\ hist' = [hist EXCEPT ![p].gets = @ + 1,
                                   ![p].readFailed = @ \/ outcome = "error"]
           /\ IF got.err # ""
              THEN /\ pc' = [pc EXCEPT ![p] = "done"]
                   /\ ret' = [ret EXCEPT ![p] = Fail("Internal")]
                   /\ loc' = loc
              ELSE /\ pc' = [pc EXCEPT ![p] = IF got.data = Nil THEN "goc_now" ELSE "goc_calc"]
                   /\ loc' = [loc EXCEPT ![p].data = got.data]
                   /\ ret' = ret
    /\ UNCHANGED <<store, clock, ticks, ops, req>>

DefaultData(userId, now) ==
    EnergyData(userId, DefaultStartingEnergy, DefaultMaxEnergy, now,
               DefaultRegenRateSeconds, DefaultLevel, NilMap)

\* getOrCreateEnergyState: new player, the default record
GocNow(p) ==
    /\ pc[p] = "goc_now"
    /\ loc' = [loc EXCEPT ![p].data = DefaultData(req[p].UserId, clock)]
    /\ hist' = [hist EXCEPT ![p].initAt = clock]
    /\ pc' = [pc EXCEPT ![p] = "goc_save"]
    /\ UNCHANGED <<store, clock, ticks, ops, req, ret>>

\* a new player whose record is used but not saved (mutation of GocSave)
GocSaveNotPersisted(p, outcome) ==
    /\ pc[p] = "goc_save"
    /\ pc' = [pc EXCEPT ![p] = "goc_calc"]
    /\ UNCHANGED <<store, clock, ticks, ops, req, loc, ret, hist>>

\* getOrCreateEnergyState: save the initial state
GocSave(p, outcome) ==
    /\ pc[p] = "goc_save"
    /\ LET saved == SaveEnergyData(req[p].UserId, loc[p].data, outcome)
       IN  /\ store' = [store EXCEPT ![req[p].UserId] = saved.stored]
           /\ hist' = [hist EXCEPT ![p].puts = @ + 1,
                                   ![p].writeFailed = @ \/ outcome = "error"]
           /\ IF saved.err # ""
              THEN /\ pc' = [pc EXCEPT ![p] = "done"]
                   /\ ret' = [ret EXCEPT ![p] = Fail("Internal")]
              ELSE /\ pc' = [pc EXCEPT ![p] = "goc_calc"]
                   /\ ret' = ret
    /\ UNCHANGED <<clock, ticks, ops, req, loc>>

\* a check against the capacity instead of the energy (mutation of Insufficient)
InsufficientByMax(energyState, cost) == energyState.MaxEnergy < cost

\* the sufficiency checks of ConsumeMyEnergy and ConsumeEnergy
Insufficient(energyState, cost) == energyState.CurrentEnergy < cost

Refused(energyState) ==
    [NoResponse EXCEPT !.code = "OK", !.Success = FALSE, !.EnergyState = energyState]

\* a get energy that writes the derived energy back to the record (mutation of
\* GocCalc)
GocCalcMaterializing(p) ==
    /\ pc[p] = "goc_calc"
    /\ req[p].op \in {"GetMyEnergy", "GetEnergy"}
    /\ LET es == calculateEnergyState(loc[p].data, clock)
       IN  /\ loc' = [loc EXCEPT ![p].energyState = es]
           /\ store' = [store EXCEPT ![req[p].UserId] =
                          [loc[p].data EXCEPT !.CurrentEnergy = es.CurrentEnergy]]
           /\ ret' = [ret EXCEPT ![p] =
                        [NoResponse EXCEPT !.code = "OK", !.EnergyState = es]]
    /\ pc' = [pc EXCEPT ![p] = "done"]
    /\ hist' = [hist EXCEPT ![p].calcAt = clock]
    /\ UNCHANGED <<clock, ticks, ops, req>>

\* getOrCreateEnergyState returns the derived state, and the handler goes on
\* to its next storage call or clock read
GocCalc(p) ==
    /\ pc[p] = "goc_calc"
    /\ LET es == calculateEnergyState(loc[p].data, clock)
           r == req[p]
       IN  /\ loc' = [loc EXCEPT ![p].energyState = es]
           /\ CASE r.op \in {"GetMyEnergy", "GetEnergy"} ->
                     /\ pc' = [pc EXCEPT ![p] = "done"]
                     /\ ret' = [ret EXCEPT ![p] =
                                  [NoResponse EXCEPT !.code = "OK", !.EnergyState = es]]
                [] r.op = "ConsumeMyEnergy" ->
                     IF Insufficient(es, actionEnergyCosts[r.ActionType])
                     THEN /\ pc' = [pc EXCEPT ![p] = "done"]
                          /\ ret' = [ret EXCEPT ![p] = Refused(es)]
                     ELSE /\ pc' = [pc EXCEPT ![p] = "get2"]
                          /\ ret' = ret
                [] r.op = "ConsumeEnergy" ->
                     IF Insufficient(es, r.Amount)
                     THEN /\ pc' = [pc EXCEPT ![p] = "done"]
                          /\ ret' = [ret EXCEPT ![p] = Refused(es)]
                     ELSE /\ pc' = [pc EXCEPT ![p] = "now"]
                          /\ ret' = ret
                [] r.op = "RefillMyEnergy" ->
                     /\ pc' = [pc EXCEPT ![p] = "get2"]
                     /\ ret' = ret
                [] OTHER ->
                     /\ pc' = [pc EXCEPT ![p] = "now"]
                     /\ ret' = ret
    /\ hist' = [hist EXCEPT ![p].calcAt = clock]
    /\ UNCHANGED <<store, clock, ticks, ops, req>>

\* ConsumeMyEnergy and RefillMyEnergy read the record a second time; the
\* error of this read is dropped
Get2(p, outcome) ==
    /\ pc[p] = "get2"
    /\ outcome \in GetOutcomes(req[p].UserId)
    /\ LET got == GetEnergyData(req[p].UserId, outcome)
       IN  loc' = [loc EXCEPT ![p].currentData = got.data]
    /\ hist' = [hist EXCEPT ![p].gets = @ + 1,
                            ![p].readFailed = @ \/ outcome = "error"]
    /\ pc' = [pc EXCEPT ![p] = "now"]
    /\ UNCHANGED <<store, clock, ticks, ops, req, ret>>

\* the inventory a handler carries over from the record it has re-read
CarriedInventory(currentData) ==
    IF currentData # Nil THEN currentData.Inventory ELSE NilMap

\* a checkpoint that always restarts the cycle (mutation of ConsumeMyLastUpdateTime)
ConsumeMyLastUpdateTimeNow(currentData, energyState, now) == now

\* a checkpoint that keeps the old cycle also at full capacity (mutation of
\* ConsumeMyLastUpdateTime)
ConsumeMyLastUpdateTimeKeepCycle(currentData, energyState, now) ==
    IF currentData # Nil
    THEN LET elapsed == now - currentData.LastUpdateTime
             regenPoints == GoDiv(elapsed, energyState.RegenRateSeconds)
         IN  currentData.LastUpdateTime + regenPoints * energyState.RegenRateSeconds
    ELSE now

\* a checkpoint rounded up to the next regen point (mutation of
\* ConsumeMyLastUpdateTime)
ConsumeMyLastUpdateTimeRoundedUp(currentData, energyState, now) ==
    IF currentData # Nil
    THEN IF energyState.CurrentEnergy >= energyState.MaxEnergy
         THEN now
         ELSE LET elapsed == now - currentData.LastUpdateTime
                  regenPoints == GoDiv(elapsed, energyState.RegenRateSeconds) + 1
              IN  currentData.LastUpdateTime + regenPoints * energyState.RegenRateSeconds
    ELSE now

\* ConsumeMyEnergy: the new checkpoint
ConsumeMyLastUpdateTime(currentData, energyState, now) ==
    IF currentData # Nil
    THEN IF energyState.CurrentEnergy >= energyState.MaxEnergy
         THEN now
         ELSE LET elapsed == now - currentData.LastUpdateTime
                  regenPoints == GoDiv(elapsed, energyState.RegenRateSeconds)
              IN  currentData.LastUpdateTime + regenPoints * energyState.RegenRateSeconds
    ELSE now

\* a checkpoint that restarts the cycle at full capacity, as the consume does
\* (mutation of RefillMyLastUpdateTime)
RefillMyLastUpdateTimeResetAtCap(currentData, energyState, now) ==
    IF currentData # Nil
    THEN IF energyState.CurrentEnergy >= energyState.MaxEnergy
         THEN now
         ELSE LET elapsed == now - currentData.LastUpdateTime
                  regenPoints == GoDiv(elapsed, energyState.RegenRateSeconds)
              IN  currentData.LastUpdateTime + regenPoints * energyState.RegenRateSeconds
    ELSE now

\* RefillMyEnergy: the new checkpoint
RefillMyLastUpdateTime(currentData, energyState, now) ==
    IF currentData # Nil
    THEN LET elapsed == now - currentData.LastUpdateTime
             regenPoints == GoDiv(elapsed, energyState.RegenRateSeconds)
         IN  currentData.LastUpdateTime + regenPoints * energyState.RegenRateSeconds
    ELSE now

\* RefillMyEnergy and RefillEnergy: the new energy, capped at max
RefilledEnergy(energyState, amount) ==
    LET newEnergy == Add32(energyState.CurrentEnergy, amount)
    IN  IF newEnergy > energyState.MaxEnergy THEN energyState.MaxEnergy ELSE newEnergy

\* a deduction from the stored energy instead of the derived energy (mutation
\* of ConsumeMyUpdatedData)
ConsumeMyUpdatedDataFromStored(r, energyState, currentData, now, loot) ==
    EnergyData(r.UserId,
               (IF currentData # Nil THEN currentData.CurrentEnergy
                ELSE energyState.CurrentEnergy) - actionEnergyCosts[r.ActionType],
               energyState.MaxEnergy,
               ConsumeMyLastUpdateTime(currentData, energyState, now),
               energyState.RegenRateSeconds,
               1,
               AddLoot(CarriedInventory(currentData), loot))

\* ConsumeMyEnergy: deduct, move the checkpoint, roll the loot
ConsumeMyUpdatedData(r, energyState, currentData, now, loot) ==
    EnergyData(r.UserId,
               energyState.CurrentEnergy - actionEnergyCosts[r.ActionType],
               energyState.MaxEnergy,
               ConsumeMyLastUpdateTime(currentData, energyState, now),
               energyState.RegenRateSeconds,
               1,
               AddLoot(CarriedInventory(currentData), loot))

RefillMyUpdatedData(r, energyState, currentData, now) ==
    EnergyData(r.UserId,
               RefilledEnergy(energyState, refillAmounts[r.Source]),
               energyState.MaxEnergy,
               RefillMyLastUpdateTime(currentData, energyState, now),
               energyState.RegenRateSeconds,
               1,
               CarriedInventory(currentData))

\* the admin handlers build the record without an inventory
ConsumeUpdatedData(r, energyState, now) ==
    EnergyData(r.UserId, energyState.CurrentEnergy - r.Amount, energyState.MaxEnergy,
               now, energyState.RegenRateSeconds, 1, NilMap)

RefillUpdatedData(r, energyState, now) ==
    EnergyData(r.UserId, RefilledEnergy(energyState, r.Amount), energyState.MaxEnergy,
               now, energyState.RegenRateSeconds, 1, NilMap)

\* an update that also writes a 0 (mutation of UpdateConfigUpdatedData)
UpdateConfigUpdatedDataUnconditional(r, energyState, now) ==
    EnergyData(r.UserId, energyState.CurrentEnergy,
               IF r.MaxEnergy >= 0 THEN r.MaxEnergy ELSE energyState.MaxEnergy,
               now,
               IF r.RegenRateSeconds >= 0 THEN r.RegenRateSeconds
               ELSE energyState.RegenRateSeconds,
               1, NilMap)

\* an update that caps the energy at the new capacity (mutation of
\* UpdateConfigUpdatedData)
UpdateConfigUpdatedDataRecapped(r, energyState, now) ==
    LET newMaxEnergy == IF r.MaxEnergy > 0 THEN r.MaxEnergy ELSE energyState.MaxEnergy
    IN  EnergyData(r.UserId, Min(energyState.CurrentEnergy, newMaxEnergy), newMaxEnergy,
                   now,
                   IF r.RegenRateSeconds > 0 THEN r.RegenRateSeconds
                   ELSE energyState.RegenRateSeconds,
                   1, NilMap)

\* an update that takes every value but 0 (mutation of UpdateConfigUpdatedData)
UpdateConfigUpdatedDataNonZero(r, energyState, now) ==
    EnergyData(r.UserId, energyState.CurrentEnergy,
               IF r.MaxEnergy # 0 THEN r.MaxEnergy ELSE energyState.MaxEnergy,
               now,
               IF r.RegenRateSeconds # 0 THEN r.RegenRateSeconds
               ELSE energyState.RegenRateSeconds,
               1, NilMap)

\* UpdateEnergyConfig: 0 (or less) means no change
UpdateConfigUpdatedData(r, energyState, now) ==
    EnergyData(r.UserId, energyState.CurrentEnergy,
               IF r.MaxEnergy > 0 THEN r.MaxEnergy ELSE energyState.MaxEnergy,
               now,
               IF r.RegenRateSeconds > 0 THEN r.RegenRateSeconds
               ELSE energyState.RegenRateSeconds,
               1, NilMap)

ConsumeMyEnergyNow(p) ==
    /\ pc[p] = "now"
    /\ req[p].op = "ConsumeMyEnergy"
    /\ \E rng \in EngineRngs :
         LET loot == rollLoot(req[p].ActionType, rng)
         IN  loc' = [loc EXCEPT ![p].now = clock,
                                ![p].loot = loot,
                                ![p].updatedData =
                                    ConsumeMyUpdatedData(req[p], loc[p].energyState,
                                                         loc[p].currentData, clock, loot)]
    /\ pc' = [pc EXCEPT ![p] = "save"]
    /\ UNCHANGED <<store, clock, ticks, ops, req, ret, hist>>

RefillMyEnergyNow(p) ==
    /\ pc[p] = "now"
    /\ req[p].op = "RefillMyEnergy"
    /\ loc' = [loc EXCEPT ![p].now = clock,
                          ![p].updatedData =
                              RefillMyUpdatedData(req[p], loc[p].energyState,
                                                  loc[p].currentData, clock)]
    /\ pc' = [pc EXCEPT ![p] = "save"]
    /\ UNCHANGED <<store, clock, ticks, ops, req, ret, hist>>

ConsumeEnergyNow(p) ==
    /\ pc[p] = "now"
    /\ req[p].op = "ConsumeEnergy"
    /\ loc' = [loc EXCEPT ![p].now = clock,
                          ![p].updatedData =
                              ConsumeUpdatedData(req[p], loc[p].energyState, clock)]
    /\ pc' = [pc EXCEPT ![p] = "save"]
    /\ UNCHANGED <<store, clock, ticks, ops, req, ret, hist>>

RefillEnergyNow(p) ==
    /\ pc[p] = "now"
    /\ req[p].op = "RefillEnergy"
    /\ loc' = [loc EXCEPT ![p].now = clock,
                          ![p].updatedData =
                              RefillUpdatedData(req[p], loc[p].energyState, clock)]
    /\ pc' = [pc EXCEPT ![p] = "save"]
    /\ UNCHANGED <<store, clock, ticks, ops, req, ret, hist>>

UpdateEnergyConfigNow(p) ==
    /\ pc[p] = "now"
    /\ req[p].op = "UpdateEnergyConfig"
    /\ loc' = [loc EXCEPT ![p].now = clock,
                          ![p].updatedData =
                              UpdateConfigUpdatedData(req[p], loc[p].energyState, clock)]
    /\ pc' = [pc EXCEPT ![p] = "save"]
    /\ UNCHANGED <<store, clock, ticks, ops, req, ret, hist>>

\* a reset that keeps the inventory of the stored record (mutation of
\* ResetEnergyNow)
ResetEnergyNowKeepInventory(p) ==
    /\ pc[p] = "now"
    /\ req[p].op = "ResetEnergy"
    /\ loc' = [loc EXCEPT ![p].now = clock,
                          ![p].updatedData =
                              [DefaultData(req[p].UserId, clock) EXCEPT
                                 !.Inventory = CarriedInventory(store[req[p].UserId])]]
    /\ pc' = [pc EXCEPT ![p] = "save"]
    /\ UNCHANGED <<store, clock, ticks, ops, req, ret, hist>>

ResetEnergyNow(p) ==
    /\ pc[p] = "now"
    /\ req[p].op = "ResetEnergy"
    /\ loc' = [loc EXCEPT ![p].now = clock,
                          ![p].updatedData = DefaultData(req[p].UserId, clock)]
    /\ pc' = [pc EXCEPT ![p] = "save"]
    /\ UNCHANGED <<store, clock, ticks, ops, req, ret, hist>>

ConfigOf(data) ==
    [UserId |-> data.UserId, MaxEnergy |-> data.MaxEnergy,
     RegenRateSeconds |-> data.RegenRateSeconds, Level |-> data.Level]

\* the handler saves the record it has built
Save(p, outcome) ==
    /\ pc[p] = "save"
    /\ LET saved == SaveEnergyData(req[p].UserId, loc[p].updatedData, outcome)
       IN  /\ store' = [store EXCEPT ![req[p].UserId] = saved.stored]
           /\ hist' = [hist EXCEPT ![p].puts = @ + 1,
                                   ![p].writeFailed = @ \/ outcome = "error"]
           /\ IF saved.err # ""
              THEN /\ pc' = [pc EXCEPT ![p] = "done"]
                   /\ ret' = [ret EXCEPT ![p] = Fail("Internal")]
              ELSE IF req[p].op = "UpdateEnergyConfig"
                   THEN /\ pc' = [pc EXCEPT ![p] = "done"]
                        /\ ret' = [ret EXCEPT ![p] =
                                     [NoResponse EXCEPT !.code = "OK", !.Success = TRUE,
                                                        !.Config = ConfigOf(loc[p].updatedData)]]
                   ELSE /\ pc' = [pc EXCEPT ![p] = "calc"]
                        /\ ret' = ret
    /\ UNCHANGED <<clock, ticks, ops, req, loc>>

\* a refill that added nothing is answered with Success = false (mutation of
\* Calc)
CalcRefusingEmptyRefill(p) ==
    /\ pc[p] = "calc"
    /\ ret' = [ret EXCEPT ![p] =
                 [NoResponse EXCEPT !.code = "OK",
                                    !.Success = ~(/\ req[p].op \in {"RefillMyEnergy", "RefillEnergy"}
                                                  /\ loc[p].updatedData.CurrentEnergy
                                                       = loc[p].energyState.CurrentEnergy),
                                    !.EnergyState = calculateEnergyState(loc[p].updatedData, clock),
                                    !.Loot = loc[p].loot]]
    /\ pc' = [pc EXCEPT ![p] = "done"]
    /\ hist' = [hist EXCEPT ![p].retAt = clock]
    /\ UNCHANGED <<store, clock, ticks, ops, req, loc>>

\* the handler derives the state it returns from the record it has saved
Calc(p) ==
    /\ pc[p] = "calc"
    /\ ret' = [ret EXCEPT ![p] =
                 [NoResponse EXCEPT !.code = "OK", !.Success = TRUE,
                                    !.EnergyState = calculateEnergyState(loc[p].updatedData, clock),
                                    !.Loot = loc[p].loot]]
    /\ pc' = [pc EXCEPT ![p] = "done"]
    /\ hist' = [hist EXCEPT ![p].retAt = clock]
    /\ UNCHANGED <<store, clock, ticks, ops, req, loc>>

DefaultConfig(userId) ==
    [UserId |-> userId, MaxEnergy |-> DefaultMaxEnergy,
     RegenRateSeconds |-> DefaultRegenRateSeconds, Level |-> DefaultLevel]

\* a read that creates the default record of a player without one (mutation
\* of ReadOnly)
ReadOnlyCreating(p, outcome) ==
    /\ pc[p] = "read"
    /\ outcome \in GetOutcomes(req[p].UserId)
    /\ LET got == GetEnergyData(req[p].UserId, outcome)
           data == IF got.data = Nil THEN DefaultData(req[p].UserId, clock) ELSE got.data
       IN  /\ hist' = [hist EXCEPT ![p].gets = @ + 1,
                                   ![p].puts = IF got.data = Nil THEN @ + 1 ELSE @,
                                   ![p].readFailed = @ \/ outcome = "error"]
           /\ loc' = [loc EXCEPT ![p].data = data]
           /\ store' = [store EXCEPT ![req[p].UserId] = data]
           /\ ret' = [ret EXCEPT ![p] =
                        IF req[p].op = "GetMyInventory"
                        THEN [NoResponse EXCEPT !.code = "OK", !.Items = data.Inventory]
                        ELSE [NoResponse EXCEPT !.code = "OK", !.Config = ConfigOf(data)]]
    /\ pc' = [pc EXCEPT ![p] = "done"]
    /\ UNCHANGED <<clock, ticks, ops, req>>

\* GetMyInventory, GetMyEnergyConfig and GetEnergyConfig: one read
ReadOnly(p, outcome) ==
    /\ pc[p] = "read"
    /\ outcome \in GetOutcomes(req[p].UserId)
    /\ LET got == GetEnergyData(req[p].UserId, outcome)
       IN  /\ hist' = [hist EXCEPT ![p].gets = @ + 1,
                                   ![p].readFailed = @ \/ outcome = "error"]
           /\ loc' = [loc EXCEPT ![p].data = got.data]
           /\ ret' = [ret EXCEPT ![p] =
                        IF got.err # "" THEN Fail("Internal")
                        ELSE IF req[p].op = "GetMyInventory"
                             THEN [NoResponse EXCEPT !.code = "OK",
                                                     !.Items = CarriedInventory(got.data)]
                             ELSE [NoResponse EXCEPT !.code = "OK",
                                                     !.Config = IF got.data = Nil
                                                                THEN DefaultConfig(req[p].UserId)
                                                                ELSE ConfigOf(got.data)]]
    /\ pc' = [pc EXCEPT ![p] = "done"]
    /\ UNCHANGED <<store, clock, ticks, ops, req>>

\* the response has been sent; the handler's variables are gone
Finish(p) ==
    /\ pc[p] = "done"
    /\ pc' = [pc EXCEPT ![p] = "idle"]
    /\ req' = [req EXCEPT ![p] = NoRequest]
    /\ loc' = [loc EXCEPT ![p] = NoLocals]
    /\ ret' = [ret EXCEPT ![p] = NoResponse]
    /\ hist' = [hist EXCEPT ![p] = NoHistory]
    /\ UNCHANGED <<store, clock, ticks, ops>>

(***************************************************************************)
(* Specifications.                                                         *)
(***************************************************************************)
\* the steps of a handler when the storage answers
Step(p) ==
    \/ GocGet(p, "ok")
    \/ GocGet(p, "notfound")
    \/ GocNow(p)
    \/ GocSave(p, "ok")
    \/ GocCalc(p)
    \/ Get2(p, "ok")
    \/ Get2(p, "notfound")
    \/ ConsumeMyEnergyNow(p)
    \/ RefillMyEnergyNow(p)
    \/ ConsumeEnergyNow(p)
    \/ RefillEnergyNow(p)
    \/ UpdateEnergyConfigNow(p)
    \/ ResetEnergyNow(p)
    \/ Save(p, "ok")
    \/ Calc(p)
    \/ ReadOnly(p, "ok")
    \/ ReadOnly(p, "notfound")
    \/ Finish(p)

\* requests one after the other, working storage, running clock
Next ==
    \/ Tick
    \/ \E p \in Procs : Start(p)
    \/ \E p \in Procs : Step(p)

Spec == Init /\ [][Next]_vars

\* the steps of a handler when a storage call fails
FaultStep(p) ==
    \/ GocGet(p, "error")
    \/ GocSave(p, "error")
    \/ Get2(p, "error")
    \/ Save(p, "error")
    \/ ReadOnly(p, "error")

StartFault(p) ==
    /\ p = 1
    /\ \A q \in Procs : pc[q] = "idle"
    /\ \E r \in Requests : Begin(p, r, MaxFaultOps)

\* requests one after the other, storage calls may fail
NextFault ==
    \/ Tick
    \/ \E p \in Procs : StartFault(p)
    \/ \E p \in Procs : Step(p)
    \/ \E p \in Procs : FaultStep(p)

SpecFault == Init /\ [][NextFault]_vars

\* the steps of a handler when a storage write fails
WriteFaultStep(p) ==
    \/ GocSave(p, "error")
    \/ Save(p, "error")

\* requests one after the other, storage reads work, storage writes may fail
NextWriteFault ==
    \/ Tick
    \/ \E p \in Procs : StartFault(p)
    \/ \E p \in Procs : Step(p)
    \/ \E p \in Procs : WriteFaultStep(p)

SpecWriteFault == Init /\ [][NextWriteFault]_vars

\* the requests that are run concurrently: one of each kind
ConcRequests ==
    { r \in Requests :
        /\ r.ActionType \in {"", "fight"}
        /\ r.Source \in {"", "ad"}
        /\ r.Amount \in {0, 10}
        /\ r.op = "UpdateEnergyConfig" => (r.MaxEnergy = 50 <=> r.RegenRateSeconds = 0)
        /\ r.MaxEnergy >= 0
        /\ ValidRequest(r) }

\* a request arrives while another may be in progress
StartConc(p) ==
    /\ \A q \in Procs : q < p => pc[q] # "idle"
    /\ \E r \in ConcRequests : Begin(p, r, MaxConcOps)

TickConc == Advance(MaxConcTicks)

\* concurrent requests, working storage
NextConc ==
    \/ TickConc
    \/ \E p \in Procs : StartConc(p)
    \/ \E p \in Procs : Step(p)

SpecConc == Init /\ [][NextConc]_vars

(***************************************************************************)
(* The regeneration function on its own.  It is applied to a stored record *)
(* at the time the clock shows, and again after the clock has advanced.    *)
(* The clock of a record's checkpoint and the clock of the reader need not *)
(* be the same one, so the reader's time may lie before the checkpoint.    *)
(***************************************************************************)
DeriveCapacities == {1, 3}
DeriveRates == {1, 4}

\* records with 0 <= currentEnergy <= maxEnergy, and records an update of the
\* configuration has left above a lowered capacity
DeriveRecords(u) ==
    UNION { { EnergyData(u, cur, max, DeriveCheckpoint, rate, 1, NilMap) :
                cur \in 0..(max + 1), rate \in DeriveRates }
            : max \in DeriveCapacities }

DeriveNows == (DeriveCheckpoint - DeriveBefore)..(DeriveCheckpoint + DeriveAfter)

InitDerive ==
    /\ store \in { f \in [Players -> UNION { DeriveRecords(u) : u \in Players }] :
                     \A u \in Players : f[u] \in DeriveRecords(u) }
    /\ clock \in DeriveNows
    /\ ticks = 0
    /\ ops = 0
    /\ pc = [p \in Procs |-> "idle"]
    /\ req = [p \in Procs |-> NoRequest]
    /\ loc = [p \in Procs |-> NoLocals]
    /\ ret = [p \in Procs |-> NoResponse]
    /\ hist = [p \in Procs |-> NoHistory]

\* calculateEnergyState(data) at the time the clock shows
Derive(p) ==
    /\ p = 1
    /\ pc[p] = "idle"
    /\ \E u \in Players :
         loc' = [loc EXCEPT ![p].data = store[u],
                            ![p].now = clock,
                            ![p].energyState = calculateEnergyState(store[u], clock)]
    /\ hist' = [hist EXCEPT ![p].calcAt = clock]
    /\ pc' = [pc EXCEPT ![p] = "derived"]
    /\ UNCHANGED <<store, clock, ticks, ops, req, ret>>

TickDerive ==
    /\ ticks < MaxDeriveTicks
    /\ \E d \in 1..MaxDeriveStep : clock' = clock + d
    /\ ticks' = ticks + 1
    /\ UNCHANGED <<store, ops, pc, req, loc, ret, hist>>

\* calculateEnergyState(data) of the same record, later
DeriveAgain(p) ==
    /\ pc[p] = "derived"
    /\ ret' = [ret EXCEPT ![p] =
                 [NoResponse EXCEPT !.code = "OK",
                                    !.EnergyState = calculateEnergyState(loc[p].data, clock)]]
    /\ hist' = [hist EXCEPT ![p].retAt = clock]
    /\ pc' = [pc EXCEPT ![p] = "rederived"]
    /\ UNCHANGED <<store, clock, ticks, ops, req, loc>>

NextDerive ==
    \/ TickDerive
    \/ \E p \in Procs : Derive(p)
    \/ \E p \in Procs : DeriveAgain(p)

SpecDerive == InitDerive /\ [][NextDerive]_vars

(***************************************************************************)
(* The loot roller on its own: rollLoot(actionType), one step for the      *)
(* number of drops and one for each turn of its loop, with every outcome   *)
(* of the random source.                                                   *)
(***************************************************************************)
\* rollLoot: the table of the action and the number of drops
RollLootBegin(p) ==
    /\ p = 1
    /\ pc[p] = "idle"
    /\ \E actionType \in ActionTypes, raw \in 0..MaxRawDraw :
         /\ req' = [req EXCEPT ![p] = Request("rollLoot", "", actionType, "", 0, 0, 0)]
         /\ loc' = [loc EXCEPT ![p].table = IF actionType \in DOMAIN lootTables
                                            THEN lootTables[actionType]
                                            ELSE lootTables["fight"],
                               ![p].numDrops = (raw % 3) + 1,
                               ![p].i = 0,
                               ![p].loot = <<>>]
    /\ pc' = [pc EXCEPT ![p] = "roll"]
    /\ UNCHANGED <<store, clock, ticks, ops, ret, hist>>

\* rollLoot: one turn of the loop
RollLootDrop(p) ==
    /\ pc[p] = "roll"
    /\ loc[p].i < loc[p].numDrops
    /\ \E rawRoll \in 0..MaxRawDraw, rawQty \in 0..MaxRawQuantity :
         loc' = [loc EXCEPT ![p].loot = @ \o RollDrops(loc[p].table, <<rawRoll, rawQty>>, 1, 1),
                            ![p].i = @ + 1]
    /\ UNCHANGED <<store, clock, ticks, ops, pc, req, ret, hist>>

\* rollLoot: return loot
RollLootReturn(p) ==
    /\ pc[p] = "roll"
    /\ ~(loc[p].i < loc[p].numDrops)
    /\ ret' = [ret EXCEPT ![p] = [NoResponse EXCEPT !.code = "OK", !.Loot = loc[p].loot]]
    /\ pc' = [pc EXCEPT ![p] = "rolled"]
    /\ UNCHANGED <<store, clock, ticks, ops, req, loc, hist>>

NextLoot ==
    \/ \E p \in Procs : RollLootBegin(p)
    \/ \E p \in Procs : RollLootDrop(p)
    \/ \E p \in Procs : RollLootReturn(p)

\* the roller reads no record: the service has just started, nothing is stored
InitLoot == Init /\ \A u \in Players : store[u] = Nil

SpecLoot == InitLoot /\ [][NextLoot]_vars

(***************************************************************************)
(* Get energy on its own: GetMyEnergy and GetEnergy requests, two at a     *)
(* time, while the clock runs.                                             *)
(***************************************************************************)
GetRequests == { r \in Requests : r.op \in {"GetMyEnergy", "GetEnergy"} }

StartGet(p) ==
    /\ \A q \in Procs : q < p => pc[q] # "idle"
    /\ \E r \in GetRequests : Begin(p, r, MaxGetOps)

TickGet == Advance(MaxGetTicks)

\* the steps of GetMyEnergy and GetEnergy when the storage answers
GetStep(p) ==
    \/ GocGet(p, "ok")
    \/ GocGet(p, "notfound")
    \/ GocNow(p)
    \/ GocSave(p, "ok")
    \/ GocCalc(p)
    \/ Finish(p)

NextGet ==
    \/ TickGet
    \/ \E p \in Procs : StartGet(p)
    \/ \E p \in Procs : GetStep(p)

SpecGet == Init /\ [][NextGet]_vars

(***************************************************************************)
(* The public endpoints behind the auth interceptor (pkg/common).  A call  *)
(* is a request together with its incoming context, the options the proto  *)
(* file declares for its method and the package's Validator at that time.  *)
(* The request names a player; the access token in the context names the   *)
(* caller.                                                                 *)
(***************************************************************************)
AuthPlayers == {"alice", "bob"}

\* an access token: the sub claim of its payload, and what the validator of
\* the IAM SDK answers for it
Tokens == [sub : AuthPlayers, accepted : BOOLEAN]

\* the incoming context: whether it has metadata, whether the metadata has
\* the authorization key, and the values of the key, each "Bearer " and a token
Context(metadata, hasAuthorization, authorization) ==
    [metadata |-> metadata, hasAuthorization |-> hasAuthorization,
     authorization |-> authorization]

Contexts ==
    { Context(FALSE, FALSE, <<>>), Context(TRUE, FALSE, <<>>), Context(TRUE, TRUE, <<>>) }
    \cup { Context(TRUE, TRUE, <<t>>) : t \in Tokens }

\* the method of a call: found among the registered descriptors or not, with
\* Bearer security or not, with a permission (resource and action) or not
MethodInfos ==
    { [known |-> FALSE, bearer |-> FALSE, permission |-> Nil] }
    \cup { [known |-> TRUE, bearer |-> b, permission |-> perm] :
             b \in BOOLEAN, perm \in {Nil, [Resource |-> "ENERGY", Action |-> 2]} }

\* the package variable Validator: nil until main has set it
Validators == {Nil, [LocalValidationActive |-> TRUE]}

extractAuthRequirement(info) ==
    IF ~info.known
    THEN [requirement |-> Nil, err |-> "Unknown"]
    ELSE [requirement |-> [RequireToken |-> info.bearer, Permission |-> info.permission],
          err |-> ""]

\* Validator.Validate(token, permission, &namespace, userIDPtr)
Validate(token, permission) == IF token.accepted THEN "" ELSE "invalid"

\* the error code checkAuthorizationMetadata returns, "" for nil
checkAuthorizationMetadata(ctx, permission, validator) ==
    IF validator = Nil THEN "Internal"
    ELSE IF ~ctx.metadata THEN "Unauthenticated"
    ELSE IF ~ctx.hasAuthorization THEN "Unauthenticated"
    ELSE IF Len(ctx.authorization) = 0 THEN "Unauthenticated"
    ELSE IF Validate(ctx.authorization[1], permission) # "" THEN "PermissionDenied"
    ELSE ""

\* an interceptor that enforces only Bearer security (mutation of
\* NewUnaryAuthServerIntercept)
NewUnaryAuthServerInterceptBearerOnly(ctx, info, validator) ==
    LET extracted == extractAuthRequirement(info)
        requirement == extracted.requirement
    IN  IF extracted.err # "" THEN extracted.err
        ELSE IF requirement = Nil THEN ""
        ELSE IF requirement.RequireToken
             THEN checkAuthorizationMetadata(ctx, requirement.Permission, validator)
             ELSE ""

\* the error code the interceptor returns without invoking the handler, ""
\* when it invokes the handler
NewUnaryAuthServerIntercept(ctx, info, validator) ==
    LET extracted == extractAuthRequirement(info)
        requirement == extracted.requirement
    IN  IF extracted.err # "" THEN extracted.err
        ELSE IF requirement = Nil THEN ""
        ELSE IF requirement.RequireToken \/ requirement.Permission # Nil
             THEN checkAuthorizationMetadata(ctx, requirement.Permission, validator)
             ELSE ""

\* the service's own helper: the user id in the token of the context
extractUserIdFromToken(ctx) ==
    IF ~ctx.metadata THEN [userId |-> "", err |-> "Unauthenticated"]
    ELSE IF Len(ctx.authorization) = 0
         THEN [userId |-> "", err |-> "Unauthenticated"]
    ELSE IF ctx.authorization[1].sub = ""
         THEN [userId |-> "", err |-> "Unauthenticated"]
    ELSE [userId |-> ctx.authorization[1].sub, err |-> ""]

\* the requests of the public endpoints, for either player
AuthRequests ==
    UNION { { Request(op, u, "", "", 0, 0, 0) :
                op \in {"GetMyEnergy", "GetMyInventory", "GetMyEnergyConfig"} }
            \cup { Request("ConsumeMyEnergy", u, "fight", "", 0, 0, 0),
                   Request("RefillMyEnergy", u, "", "ad", 0, 0, 0) }
          : u \in AuthPlayers }

\* a call: the request with its context, its method and the Validator
Call(r, ctx, info, validator) ==
    r @@ [ctx |-> ctx, info |-> info, Validator |-> validator]

\* a call arrives: the interceptor returns an error, or invokes the handler,
\* which runs up to its first storage call
Intercept(p) ==
    /\ p = 1
    /\ \A q \in Procs : pc[q] = "idle"
    /\ \E r \in AuthRequests, ctx \in Contexts, info \in MethodInfos,
          validator \in Validators :
         LET code == NewUnaryAuthServerIntercept(ctx, info, validator)
             call == Call(r, ctx, info, validator)
         IN  IF code = ""
             THEN Begin(p, call, MaxAuthOps)
             ELSE /\ ops < MaxAuthOps
                  /\ ops' = ops + 1
                  /\ req' = [req EXCEPT ![p] = call]
                  /\ hist' = [hist EXCEPT ![p] = NoHistory]
                  /\ loc' = [loc EXCEPT ![p] = NoLocals]
                  /\ pc' = [pc EXCEPT ![p] = "done"]
                  /\ ret' = [ret EXCEPT ![p] = Fail(code)]
                  /\ UNCHANGED <<store, clock, ticks>>

TickAuth == Advance(MaxAuthTicks)

\* the steps of the public endpoints when the storage answers
AuthStep(p) ==
    \/ GocGet(p, "ok")
    \/ GocGet(p, "notfound")
    \/ GocNow(p)
    \/ GocSave(p, "ok")
    \/ GocCalc(p)
    \/ Get2(p, "ok")
    \/ ConsumeMyEnergyNow(p)
    \/ RefillMyEnergyNow(p)
    \/ Save(p, "ok")
    \/ Calc(p)
    \/ ReadOnly(p, "ok")
    \/ ReadOnly(p, "notfound")
    \/ Finish(p)

NextAuth ==
    \/ TickAuth
    \/ \E p \in Procs : Intercept(p)
    \/ \E p \in Procs : AuthStep(p)

\* each player has no record, or one an earlier run has written
InitAuth ==
    /\ store \in { [u \in AuthPlayers |->
                      IF u \in s
                      THEN EnergyData(u, 50, 100, T0 - 450, 300, 1, [gold |-> 7])
                      ELSE Nil] : s \in SUBSET AuthPlayers }
    /\ clock = T0
    /\ ticks = 0
    /\ ops = 0
    /\ pc = [p \in Procs |-> "idle"]
    /\ req = [p \in Procs |-> NoRequest]
    /\ loc = [p \in Procs |-> NoLocals]
    /\ ret = [p \in Procs |-> NoResponse]
    /\ hist = [p \in Procs |-> NoHistory]

SpecAuth == InitAuth /\ [][NextAuth]_vars

(***************************************************************************)
(* Vocabulary of the properties.                                           *)
(***************************************************************************)
Returned(p) == pc[p] = "done"

\* the handler answered with a response, not with an error
Answered(p) == Returned(p) /\ ret[p].code = "OK"

Accepted(p) == Answered(p) /\ ret[p].Success

Refusal(p) == Answered(p) /\ ~ret[p].Success

Stored(p) == store[req[p].UserId]

\* the cost of a consume request: the table cost or the raw amount
CostOf(r) == IF r.op = "ConsumeMyEnergy" THEN actionEnergyCosts[r.ActionType] ELSE r.Amount

\* the regeneration formula of the specification, on its own: energy s at
\* checkpoint L with rate r and capacity m, seen at time t >= L
Regenerated(s, m, L, r, t) == Min(m, s + ((t - L) \div r))

\* the energy of the record a request found (none: a new player starts full),
\* derived at time t
DerivedBefore(p, t) ==
    IF hist[p].pre = Nil THEN DefaultStartingEnergy
    ELSE Regenerated(hist[p].pre.CurrentEnergy, hist[p].pre.MaxEnergy,
                     hist[p].pre.LastUpdateTime, hist[p].pre.RegenRateSeconds, t)

RECURSIVE LootQty(_, _)
LootQty(loot, id) ==
    IF loot = <<>> THEN 0
    ELSE (IF Head(loot).ItemId = id THEN Head(loot).Quantity ELSE 0) + LootQty(Tail(loot), id)

ItemIds == {"gold", "iron_ore", "gem", "sword_shard", "herb", "map_piece"}

(***************************************************************************)
(* C1  No update is lost: when two player-scoped consumes on the same       *)
(* player have both returned accepted, the stored record has had both      *)
(* costs deducted (its energy is at most the energy before the first of    *)
(* them, plus what can have regenerated since, minus both costs) and its   *)
(* inventory holds the loot of both.                                       *)
(***************************************************************************)
FirstOf(p, q) == IF hist[p].seq < hist[q].seq THEN p ELSE q

NoLostUpdate ==
    \A p, q \in Procs :
        ( /\ p # q
          /\ Accepted(p) /\ Accepted(q)
          /\ req[p].op = "ConsumeMyEnergy" /\ req[q].op = "ConsumeMyEnergy"
          /\ req[p].UserId = req[q].UserId )
        => LET base == hist[FirstOf(p, q)].pre
               energy0 == IF base = Nil THEN DefaultStartingEnergy ELSE base.CurrentEnergy
               since == IF base = Nil THEN T0 ELSE base.LastUpdateTime
               rate == IF base = Nil THEN DefaultRegenRateSeconds ELSE base.RegenRateSeconds
               inv0 == CarriedInventory(base)
           IN  /\ Stored(p).CurrentEnergy
                    <= energy0 + ((clock - since) \div rate) - CostOf(req[p]) - CostOf(req[q])
               /\ \A id \in ItemIds :
                    Qty(Stored(p).Inventory, id)
                      >= Qty(inv0, id) + LootQty(ret[p].Loot, id) + LootQty(ret[q].Loot, id)

(***************************************************************************)
(* C2  A storage read that fails is surfaced as an internal failure and     *)
(* nothing is persisted: after get energy, consume, refill or updateConfig *)
(* with a failed read, the response is an Internal error and the stored    *)
(* record is the one the request found.                                    *)
(***************************************************************************)
ReadFailureSurfaced ==
    \A p \in Procs :
        ( /\ Returned(p)
          /\ hist[p].readFailed
          /\ req[p].op \in {"GetMyEnergy", "GetEnergy", "ConsumeMyEnergy", "ConsumeEnergy",
                            "RefillMyEnergy", "RefillEnergy", "UpdateEnergyConfig"} )
        => /\ ret[p].code = "Internal"
           /\ Stored(p) = hist[p].pre

(***************************************************************************)
(* C3  Every persisted record satisfies 0 <= currentEnergy <= maxEnergy.    *)
(***************************************************************************)
EnergyWithinCapacity ==
    \A u \in Players :
        store[u] # Nil
        => 0 <= store[u].CurrentEnergy /\ store[u].CurrentEnergy <= store[u].MaxEnergy

(***************************************************************************)
(* C4  No regeneration progress is lost or double-counted by a player       *)
(* consume accepted below capacity: with s, L, r the stored energy,        *)
(* checkpoint and rate before it, the energy derived from the persisted    *)
(* record at every later time t is min(maxEnergy, s + floor((t-L)/r) -     *)
(* cost).                                                                  *)
(***************************************************************************)
RegenProgressKept ==
    \A p \in Procs :
        ( /\ Accepted(p)
          /\ req[p].op = "ConsumeMyEnergy"
          /\ hist[p].pre # Nil
          /\ loc[p].energyState.CurrentEnergy < loc[p].energyState.MaxEnergy )
        => \A d \in 0..Horizon :
             calculateEnergyState(Stored(p), clock + d).CurrentEnergy
               = Min(hist[p].pre.MaxEnergy,
                     hist[p].pre.CurrentEnergy
                       + ((clock + d - hist[p].pre.LastUpdateTime)
                            \div hist[p].pre.RegenRateSeconds)
                       - CostOf(req[p]))

(***************************************************************************)
(* C5  Inventory is additive only: no step other than the write of a reset  *)
(* decreases the stored quantity of an item or removes an item (or the     *)
(* record).                                                                *)
(***************************************************************************)
ResetWrites == \E p \in Procs : pc[p] = "save" /\ req[p].op = "ResetEnergy"

InventoryKept ==
    \A u \in Players :
        store[u] # Nil
        => /\ store'[u] # Nil
           /\ \A id \in DOMAIN store[u].Inventory :
                /\ id \in DOMAIN store'[u].Inventory
                /\ store'[u].Inventory[id] >= store[u].Inventory[id]

InventoryAdditive == [][~ResetWrites => InventoryKept]_vars

(***************************************************************************)
(* C6  Admin consume and admin refill on a record below capacity preserve   *)
(* the cycle phase: the persisted lastUpdateTime is the old one plus a     *)
(* whole number of regen intervals, so (now - lastUpdateTime) mod          *)
(* regenRateSeconds is the same before and after.                          *)
(***************************************************************************)
AdminPhasePreserved ==
    \A p \in Procs :
        ( /\ Accepted(p)
          /\ req[p].op \in {"ConsumeEnergy", "RefillEnergy"}
          /\ hist[p].pre # Nil
          /\ loc[p].energyState.CurrentEnergy < loc[p].energyState.MaxEnergy )
        => LET L0 == hist[p].pre.LastUpdateTime
               r == hist[p].pre.RegenRateSeconds
           IN  /\ Stored(p).LastUpdateTime >= L0
               /\ (Stored(p).LastUpdateTime - L0) % r = 0
               /\ (loc[p].now - Stored(p).LastUpdateTime) % r = (loc[p].now - L0) % r

(***************************************************************************)
(* C7  Consume sufficiency on an existing record: when the cost is greater  *)
(* than the energy derived at the call, the consume answers accepted =     *)
(* false with no loot and the stored record is the one it found.           *)
(***************************************************************************)
ConsumeSufficiency ==
    \A p \in Procs :
        ( /\ Returned(p)
          /\ req[p].op \in {"ConsumeMyEnergy", "ConsumeEnergy"}
          /\ ValidRequest(req[p])
          /\ hist[p].pre # Nil
          /\ CostOf(req[p]) > DerivedBefore(p, hist[p].calcAt) )
        => /\ Refusal(p)
           /\ ret[p].Loot = <<>>
           /\ Stored(p) = hist[p].pre

ConsumeSufficiencyWitness ==
    \E p \in Procs :
        /\ Refusal(p)
        /\ req[p].op \in {"ConsumeMyEnergy", "ConsumeEnergy"}
        /\ hist[p].pre # Nil
        /\ CostOf(req[p]) > DerivedBefore(p, hist[p].calcAt)

(***************************************************************************)
(* C8  As claimed: a consume refused for insufficient energy performs no    *)
(* persistence write at all, for every player.                             *)
(***************************************************************************)
RefusedConsumeWritesNothing ==
    \A p \in Procs :
        (Refusal(p) /\ req[p].op \in {"ConsumeMyEnergy", "ConsumeEnergy"})
        => hist[p].puts = 0

(***************************************************************************)
(* C8  As amended: a refused consume performs no persistence write on a     *)
(* player that has a record; on a player without one its only write is the *)
(* default record of the Record Initializer.                               *)
(***************************************************************************)
RefusedConsumeWritesOnlyDefault ==
    \A p \in Procs :
        (Refusal(p) /\ req[p].op \in {"ConsumeMyEnergy", "ConsumeEnergy"})
        => IF hist[p].pre # Nil
           THEN hist[p].puts = 0 /\ Stored(p) = hist[p].pre
           ELSE /\ hist[p].puts = 1
                /\ Stored(p).CurrentEnergy = DefaultStartingEnergy
                /\ Stored(p).MaxEnergy = DefaultMaxEnergy
                /\ Stored(p).RegenRateSeconds = DefaultRegenRateSeconds
                /\ Stored(p).Level = DefaultLevel
                /\ Stored(p).Inventory = NilMap

RefusedConsumeWitness ==
    \E p \in Procs :
        /\ Refusal(p) /\ req[p].op = "ConsumeEnergy" /\ hist[p].pre = Nil
        /\ hist[p].puts = 1
        /\ req[p].Amount > DefaultStartingEnergy

(***************************************************************************)
(* C9  As claimed: a player consume with a known action is accepted exactly *)
(* when the derived energy is at least the cost; then the persisted record *)
(* has currentEnergy = derived - cost with maxEnergy and regenRateSeconds  *)
(* unchanged, and the returned currentEnergy equals the persisted one.     *)
(***************************************************************************)
ConfigBefore(p) ==
    IF hist[p].pre = Nil
    THEN [MaxEnergy |-> DefaultMaxEnergy, RegenRateSeconds |-> DefaultRegenRateSeconds]
    ELSE [MaxEnergy |-> hist[p].pre.MaxEnergy,
          RegenRateSeconds |-> hist[p].pre.RegenRateSeconds]

ConsumeMyDeducts(p) ==
    /\ Accepted(p) <=> DerivedBefore(p, hist[p].calcAt) >= CostOf(req[p])
    /\ Accepted(p)
       => /\ Stored(p).CurrentEnergy = DerivedBefore(p, hist[p].calcAt) - CostOf(req[p])
          /\ Stored(p).MaxEnergy = ConfigBefore(p).MaxEnergy
          /\ Stored(p).RegenRateSeconds = ConfigBefore(p).RegenRateSeconds

ConsumeMyReturnsStored ==
    \A p \in Procs :
        (Returned(p) /\ req[p].op = "ConsumeMyEnergy" /\ ValidRequest(req[p]))
        => /\ ConsumeMyDeducts(p)
           /\ Accepted(p) => ret[p].EnergyState.CurrentEnergy = Stored(p).CurrentEnergy

(***************************************************************************)
(* C9  As amended: ... and the returned currentEnergy is the energy derived *)
(* from the persisted record when the response is built: the persisted     *)
(* value plus the points regenerated since the persisted checkpoint,       *)
(* capped at maxEnergy; it equals the persisted value when less than one   *)
(* regen interval has passed since that checkpoint.                        *)
(***************************************************************************)
ConsumeMyReturnsDerived ==
    \A p \in Procs :
        (Returned(p) /\ req[p].op = "ConsumeMyEnergy" /\ ValidRequest(req[p]))
        => /\ ConsumeMyDeducts(p)
           /\ Accepted(p)
              => /\ ret[p].EnergyState.CurrentEnergy
                      = Regenerated(Stored(p).CurrentEnergy, Stored(p).MaxEnergy,
                                    Stored(p).LastUpdateTime, Stored(p).RegenRateSeconds,
                                    hist[p].retAt)
                 /\ hist[p].retAt - Stored(p).LastUpdateTime < Stored(p).RegenRateSeconds
                    => ret[p].EnergyState.CurrentEnergy = Stored(p).CurrentEnergy

\* a first-seen player consumes the action with cost 10 and ends at 90
ConsumeMyWitness ==
    \E p \in Procs :
        /\ Accepted(p) /\ req[p].op = "ConsumeMyEnergy" /\ req[p].ActionType = "fight"
        /\ hist[p].pre = Nil
        /\ Stored(p).CurrentEnergy = 90
        /\ ret[p].EnergyState.CurrentEnergy = 90

(***************************************************************************)
(* C10  Consume checkpoint rule below capacity: a player consume accepted   *)
(* at time now on a record with checkpoint L and rate r whose derived      *)
(* energy was below maxEnergy persists lastUpdateTime =                    *)
(* L + floor((now - L) / r) * r.                                           *)
(***************************************************************************)
ConsumeCheckpointBelowCap ==
    \A p \in Procs :
        ( /\ Accepted(p)
          /\ req[p].op = "ConsumeMyEnergy"
          /\ hist[p].pre # Nil
          /\ DerivedBefore(p, hist[p].calcAt) < hist[p].pre.MaxEnergy )
        => LET L0 == hist[p].pre.LastUpdateTime
               r == hist[p].pre.RegenRateSeconds
           IN  Stored(p).LastUpdateTime = L0 + ((loc[p].now - L0) \div r) * r

\* r = 300, L = T: consuming at T + 450 persists lastUpdateTime = T + 300
ConsumeCheckpointWitness ==
    \E p \in Procs :
        /\ Accepted(p) /\ req[p].op = "ConsumeMyEnergy"
        /\ hist[p].pre # Nil
        /\ DerivedBefore(p, hist[p].calcAt) < hist[p].pre.MaxEnergy
        /\ hist[p].pre.RegenRateSeconds = 300
        /\ loc[p].now = hist[p].pre.LastUpdateTime + 450
        /\ Stored(p).LastUpdateTime = hist[p].pre.LastUpdateTime + 300

(***************************************************************************)
(* C11  Consume from full capacity starts a fresh cycle: a consume (player  *)
(* or admin) accepted on an existing record whose energy, derived when the *)
(* handler loaded it, equals maxEnergy persists lastUpdateTime = the time  *)
(* of the operation, whatever the old checkpoint was.                      *)
(***************************************************************************)
ConsumeFromCapRestartsCycle ==
    \A p \in Procs :
        ( /\ Accepted(p)
          /\ req[p].op \in {"ConsumeMyEnergy", "ConsumeEnergy"}
          /\ hist[p].pre # Nil
          /\ DerivedBefore(p, hist[p].calcAt) = hist[p].pre.MaxEnergy )
        => Stored(p).LastUpdateTime = loc[p].now

\* a full record with checkpoint T is consumed at T + 150: the persisted
\* checkpoint is T + 150, not T
ConsumeFromCapWitness ==
    \E p \in Procs :
        /\ Accepted(p) /\ req[p].op = "ConsumeMyEnergy"
        /\ hist[p].pre # Nil
        /\ DerivedBefore(p, hist[p].calcAt) = hist[p].pre.MaxEnergy
        /\ loc[p].now = hist[p].pre.LastUpdateTime + 150
        /\ Stored(p).LastUpdateTime = loc[p].now

(***************************************************************************)
(* C12  Refill never exceeds capacity: after an accepted player or admin    *)
(* refill the persisted currentEnergy equals min(maxEnergy, derivedEnergy  *)
(* + amount), and the stored and the returned energy are at most           *)
(* maxEnergy.                                                              *)
(***************************************************************************)
RefillAmountOf(r) == IF r.op = "RefillMyEnergy" THEN refillAmounts[r.Source] ELSE r.Amount

\* min(m, e + n) for 0 <= e <= m and n > 0, without leaving the integers of the
\* model checker
CappedSum(m, e, n) == IF e >= m - n THEN m ELSE e + n

RefillCapped ==
    \A p \in Procs :
        (Accepted(p) /\ req[p].op \in {"RefillMyEnergy", "RefillEnergy"})
        => /\ Stored(p).CurrentEnergy
                = CappedSum(ConfigBefore(p).MaxEnergy, DerivedBefore(p, hist[p].calcAt),
                            RefillAmountOf(req[p]))
           /\ Stored(p).CurrentEnergy <= Stored(p).MaxEnergy
           /\ ret[p].EnergyState.CurrentEnergy <= ret[p].EnergyState.MaxEnergy

(***************************************************************************)
(* C13  A player refill never resets the regeneration cycle: on an existing *)
(* record with checkpoint L and rate r, refilled at time now, the          *)
(* persisted lastUpdateTime is L + floor((now - L) / r) * r, also when the *)
(* derived energy was already at maxEnergy.                                *)
(***************************************************************************)
RefillKeepsCycle ==
    \A p \in Procs :
        (Accepted(p) /\ req[p].op = "RefillMyEnergy" /\ hist[p].pre # Nil)
        => LET L0 == hist[p].pre.LastUpdateTime
               r == hist[p].pre.RegenRateSeconds
           IN  Stored(p).LastUpdateTime = L0 + ((loc[p].now - L0) \div r) * r

\* a full record with checkpoint T and rate 300 is refilled at T + 150: the
\* persisted checkpoint is still T
RefillKeepsCycleWitness ==
    \E p \in Procs :
        /\ Accepted(p) /\ req[p].op = "RefillMyEnergy"
        /\ hist[p].pre # Nil
        /\ DerivedBefore(p, hist[p].calcAt) = hist[p].pre.MaxEnergy
        /\ loc[p].now = hist[p].pre.LastUpdateTime + 150
        /\ Stored(p).LastUpdateTime = hist[p].pre.LastUpdateTime

(***************************************************************************)
(* C14  Invalid input is rejected before any state is read: a player        *)
(* consume with an action absent from the cost table, a player refill with *)
(* a source absent from the amount table and an admin consume or refill    *)
(* with amount <= 0 return InvalidArgument without a storage get or put,   *)
(* and the stored record (or its absence) is unchanged.                    *)
(***************************************************************************)
InvalidInput(r) ==
    \/ r.op = "ConsumeMyEnergy" /\ r.ActionType \notin {"fight", "explore"}
    \/ r.op = "RefillMyEnergy" /\ r.Source \notin {"daily", "ad", "purchase", "debug"}
    \/ r.op \in {"ConsumeEnergy", "RefillEnergy"} /\ r.Amount <= 0

InvalidInputRejected ==
    \A p \in Procs :
        (Returned(p) /\ InvalidInput(req[p]))
        => /\ ret[p].code = "InvalidArgument"
           /\ hist[p].gets = 0
           /\ hist[p].puts = 0
           /\ Stored(p) = hist[p].pre

\* an admin refill of amount 0 on a player with a record, after a request that
\* was served
InvalidInputWitness ==
    \E p \in Procs :
        /\ Returned(p) /\ req[p].op = "RefillEnergy" /\ req[p].Amount = 0
        /\ ret[p].code = "InvalidArgument"
        /\ hist[p].pre # Nil
        /\ hist[p].seq = 2

(***************************************************************************)
(* C15  For every record with maxEnergy > 0, regenRateSeconds > 0 and      *)
(* 0 <= currentEnergy <= maxEnergy and every time now, before, at or after *)
(* lastUpdateTime, the derived currentEnergy lies in [0, maxEnergy].       *)
(***************************************************************************)
Derived(p) == pc[p] \in {"derived", "rederived"}

ValidRecord(data) ==
    /\ data.MaxEnergy > 0
    /\ data.RegenRateSeconds > 0
    /\ 0 <= data.CurrentEnergy /\ data.CurrentEnergy <= data.MaxEnergy

RegenPoints(data, now) ==
    IF now > data.LastUpdateTime
    THEN (now - data.LastUpdateTime) \div data.RegenRateSeconds
    ELSE 0

EnergyAt(data, t) == Min(data.MaxEnergy, data.CurrentEnergy + RegenPoints(data, t))

\* elapsed mod regenRateSeconds: the remainder with the sign of the divisor or
\* with the sign of the dividend (they differ only for a negative elapsed)
ElapsedMods(data, now) ==
    { (now - data.LastUpdateTime) % data.RegenRateSeconds,
      GoRem(now - data.LastUpdateTime, data.RegenRateSeconds) }

NextRegenTimeIsNextPoint ==
    \A p \in Procs :
        (Derived(p) /\ ValidRecord(loc[p].data))
        => LET data == loc[p].data
               es == loc[p].energyState
               now == hist[p].calcAt
               next == es.NextRegenTime
           IN  IF es.CurrentEnergy < data.MaxEnergy
               THEN /\ \E used \in ElapsedMods(data, now) :
                         next = now + (data.RegenRateSeconds - used)
                    /\ now < next
                    /\ next <= now + data.RegenRateSeconds
                    /\ EnergyAt(data, next) = es.CurrentEnergy + 1
                    /\ \A t \in now..(next - 1) : EnergyAt(data, t) = es.CurrentEnergy
               ELSE next = 0

(***************************************************************************)
(* C19  timeToMaxSeconds is exact: when the derived energy at now is below  *)
(* maxEnergy, timeToMaxSeconds = (maxEnergy - currentEnergy) *             *)
(* regenRateSeconds - (elapsed mod regenRateSeconds) is positive, the      *)
(* energy derived at now + timeToMaxSeconds is maxEnergy and at now +      *)
(* timeToMaxSeconds - 1 is below maxEnergy; at capacity timeToMaxSeconds   *)
(* and energyToMax are 0.                                                  *)
(***************************************************************************)
TimeToMaxExact ==
    \A p \in Procs :
        (Derived(p) /\ ValidRecord(loc[p].data))
        => LET data == loc[p].data
               es == loc[p].energyState
               now == hist[p].calcAt
               ttm == es.TimeToMaxSeconds
           IN  IF es.CurrentEnergy < data.MaxEnergy
               THEN /\ \E used \in ElapsedMods(data, now) :
                         ttm = (data.MaxEnergy - es.CurrentEnergy) * data.RegenRateSeconds - used
                    /\ ttm > 0
                    /\ EnergyAt(data, now + ttm) = data.MaxEnergy
                    /\ EnergyAt(data, now + ttm - 1) < data.MaxEnergy
               ELSE ttm = 0 /\ es.EnergyToMax = 0

(***************************************************************************)
(* C20  After an accepted player consume the persisted inventory is the     *)
(* inventory before it with, for each item, the sum of the quantities of   *)
(* the returned drops of that item added; items not among the drops keep   *)
(* their quantity.                                                         *)
(***************************************************************************)
DroppedIds(loot) == { loot[i].ItemId : i \in DOMAIN loot }

LootMerged ==
    \A p \in Procs :
        (Accepted(p) /\ req[p].op = "ConsumeMyEnergy")
        => LET before == CarriedInventory(hist[p].pre)
               after == Stored(p).Inventory
           IN  /\ DOMAIN after = (DOMAIN before) \cup DroppedIds(ret[p].Loot)
               /\ \A id \in DOMAIN after :
                    after[id] = Qty(before, id) + LootQty(ret[p].Loot, id)

\* gold is held and dropped twice in one roll, another item is dropped for the
\* first time
LootMergedWitness ==
    \E p \in Procs :
        /\ Accepted(p) /\ req[p].op = "ConsumeMyEnergy"
        /\ hist[p].pre # Nil
        /\ Qty(hist[p].pre.Inventory, "gold") = 7
        /\ \E i, j \in DOMAIN ret[p].Loot :
             i < j /\ ret[p].Loot[i].ItemId = "gold" /\ ret[p].Loot[j].ItemId = "gold"
        /\ Stored(p).Inventory["gold"] = 7 + LootQty(ret[p].Loot, "gold")
        /\ \E id \in DroppedIds(ret[p].Loot) : id \notin DOMAIN hist[p].pre.Inventory

(***************************************************************************)
(* C21  The Loot Roller returns between 1 and 3 drops for every action      *)
(* identifier and every outcome of the random source: each of the k turns  *)
(* selects exactly one table entry, so the list length equals k.           *)
(***************************************************************************)
Rolled(p) == pc[p] = "rolled"

DropCountIsDrawn ==
    \A p \in Procs :
        /\ pc[p] = "roll" => Len(loc[p].loot) = loc[p].i
        /\ Rolled(p)
           => /\ Len(ret[p].Loot) = loc[p].numDrops
              /\ Len(ret[p].Loot) \in 1..3

\* three drops, the last of them from the last entry of the table
DropCountWitness ==
    \E p \in Procs :
        /\ Rolled(p)
        /\ Len(ret[p].Loot) = 3
        /\ ret[p].Loot[3].ItemId = loc[p].table[Len(loc[p].table)].ItemID

(***************************************************************************)
(* C22  Every drop of the Loot Roller names an item of the table of the     *)
(* action, or of the fight table when the action has no table, and its     *)
(* quantity lies in [minQty, maxQty] of the selected entry, being minQty   *)
(* when minQty = maxQty.                                                   *)
(***************************************************************************)
TableOf(actionType) ==
    IF actionType = "fight" \/ actionType \notin {"fight", "explore"}
    THEN << [id |-> "gold", min |-> 5, max |-> 20], [id |-> "iron_ore", min |-> 1, max |-> 3],
            [id |-> "gem", min |-> 1, max |-> 1], [id |-> "sword_shard", min |-> 1, max |-> 2] >>
    ELSE << [id |-> "gold", min |-> 2, max |-> 10], [id |-> "herb", min |-> 1, max |-> 5],
            [id |-> "map_piece", min |-> 1, max |-> 1], [id |-> "gem", min |-> 1, max |-> 1] >>

DropsFromTable ==
    \A p \in Procs :
        Rolled(p)
        => \A k \in DOMAIN ret[p].Loot :
             \E e \in DOMAIN TableOf(req[p].ActionType) :
                LET entry == TableOf(req[p].ActionType)[e]
                    drop == ret[p].Loot[k]
                IN  /\ drop.ItemId = entry.id
                    /\ entry.min <= drop.Quantity /\ drop.Quantity <= entry.max

\* an action without a table drops from the fight table: the largest quantity
\* of gold and the one gem
DropsFromTableWitness ==
    \E p \in Procs :
        /\ Rolled(p)
        /\ req[p].ActionType = "fly"
        /\ \E k \in DOMAIN ret[p].Loot :
             ret[p].Loot[k].ItemId = "gold" /\ ret[p].Loot[k].Quantity = 20
        /\ \E k \in DOMAIN ret[p].Loot :
             ret[p].Loot[k].ItemId = "gem" /\ ret[p].Loot[k].Quantity = 1

(***************************************************************************)
(* C23  Reset is unconditional: from any prior state of the player, also    *)
(* no record, reset persists a record with currentEnergy = maxEnergy =     *)
(* 100, regenRateSeconds = 300, level = 1, empty inventory and             *)
(* lastUpdateTime equal to the time of the reset.                          *)
(***************************************************************************)
ResetToDefaults ==
    \A p \in Procs :
        (Returned(p) /\ req[p].op = "ResetEnergy")
        => /\ Accepted(p)
           /\ Stored(p).CurrentEnergy = 100
           /\ Stored(p).MaxEnergy = 100
           /\ Stored(p).RegenRateSeconds = 300
           /\ Stored(p).Level = 1
           /\ Stored(p).Inventory = NilMap
           /\ Stored(p).LastUpdateTime = loc[p].now

\* a record with half the energy, an older checkpoint and gold is reset
ResetToDefaultsWitness ==
    \E p \in Procs :
        /\ Accepted(p) /\ req[p].op = "ResetEnergy"
        /\ hist[p].pre # Nil
        /\ hist[p].pre.CurrentEnergy = 50
        /\ Qty(hist[p].pre.Inventory, "gold") = 7
        /\ Stored(p).CurrentEnergy = 100
        /\ Stored(p).Inventory = NilMap
        /\ Stored(p).LastUpdateTime > hist[p].pre.LastUpdateTime

(***************************************************************************)
(* C24  getConfig (player and admin) returns the stored maxEnergy,          *)
(* regenRateSeconds and level when a record exists and the defaults (100,  *)
(* 300, 1) when none exists, and issues no storage write: a player with no *)
(* record still has no record afterwards.                                  *)
(***************************************************************************)
GetConfigReadsOnly ==
    \A p \in Procs :
        (Returned(p) /\ req[p].op \in {"GetMyEnergyConfig", "GetEnergyConfig"})
        => /\ ret[p].code = "OK"
           /\ ret[p].Config.MaxEnergy
                = (IF hist[p].pre = Nil THEN 100 ELSE hist[p].pre.MaxEnergy)
           /\ ret[p].Config.RegenRateSeconds
                = (IF hist[p].pre = Nil THEN 300 ELSE hist[p].pre.RegenRateSeconds)
           /\ ret[p].Config.Level = (IF hist[p].pre = Nil THEN 1 ELSE hist[p].pre.Level)
           /\ hist[p].puts = 0
           /\ Stored(p) = hist[p].pre

\* a player without a record asks for the configuration
GetConfigWitness ==
    \E p \in Procs :
        /\ Returned(p) /\ req[p].op = "GetMyEnergyConfig"
        /\ hist[p].pre = Nil
        /\ ret[p].Config.MaxEnergy = 100
        /\ Stored(p) = Nil

(***************************************************************************)
(* C25  updateConfig(maxEnergy, regenRateSeconds) at time now persists a    *)
(* record whose maxEnergy is the requested value when it is positive and   *)
(* the previous value when it is 0, likewise for regenRateSeconds, and     *)
(* whose lastUpdateTime equals now.                                        *)
(***************************************************************************)
UpdateConfigOverwritesPositive ==
    \A p \in Procs :
        (Returned(p) /\ req[p].op = "UpdateEnergyConfig")
        => /\ Accepted(p)
           /\ req[p].MaxEnergy > 0 => Stored(p).MaxEnergy = req[p].MaxEnergy
           /\ req[p].MaxEnergy = 0 => Stored(p).MaxEnergy = ConfigBefore(p).MaxEnergy
           /\ req[p].RegenRateSeconds > 0
              => Stored(p).RegenRateSeconds = req[p].RegenRateSeconds
           /\ req[p].RegenRateSeconds = 0
              => Stored(p).RegenRateSeconds = ConfigBefore(p).RegenRateSeconds
           /\ Stored(p).LastUpdateTime = loc[p].now

\* maxEnergy 50 is written, regenRateSeconds 0 leaves the rate, the checkpoint
\* moves to now
UpdateConfigWitness ==
    \E p \in Procs :
        /\ Accepted(p) /\ req[p].op = "UpdateEnergyConfig"
        /\ req[p].MaxEnergy = 50 /\ req[p].RegenRateSeconds = 0
        /\ hist[p].pre # Nil
        /\ Stored(p).MaxEnergy = 50
        /\ Stored(p).RegenRateSeconds = 300
        /\ Stored(p).LastUpdateTime = loc[p].now
        /\ loc[p].now > hist[p].pre.LastUpdateTime

(***************************************************************************)
(* C26  As claimed: updateConfig carries currentEnergy through unchanged:   *)
(* the currentEnergy of the record it persists equals the currentEnergy of *)
(* the record stored before the call, whatever time has elapsed since the  *)
(* checkpoint and whether or not the new maxEnergy is lower.               *)
(***************************************************************************)
UpdateConfigKeepsStoredEnergy ==
    \A p \in Procs :
        (Accepted(p) /\ req[p].op = "UpdateEnergyConfig" /\ hist[p].pre # Nil)
        => Stored(p).CurrentEnergy = hist[p].pre.CurrentEnergy

(***************************************************************************)
(* C26  As amended: the currentEnergy of the record updateConfig persists   *)
(* is the energy derived from the stored record when the call loads it     *)
(* (the stored currentEnergy plus the whole points regenerated since the   *)
(* checkpoint, capped at the previous maxEnergy), whether or not the new   *)
(* maxEnergy is lower; it is the stored currentEnergy when less than one   *)
(* regen interval has elapsed since the checkpoint and the stored value is *)
(* at most the previous maxEnergy.                                         *)
(***************************************************************************)
UpdateConfigKeepsDerivedEnergy ==
    \A p \in Procs :
        (Accepted(p) /\ req[p].op = "UpdateEnergyConfig")
        => /\ Stored(p).CurrentEnergy = DerivedBefore(p, hist[p].calcAt)
           /\ ( /\ hist[p].pre # Nil
                /\ hist[p].calcAt - hist[p].pre.LastUpdateTime < hist[p].pre.RegenRateSeconds
                /\ hist[p].pre.CurrentEnergy <= hist[p].pre.MaxEnergy )
              => Stored(p).CurrentEnergy = hist[p].pre.CurrentEnergy

\* stored 50 with one interval elapsed, capacity lowered to 50: 51 is persisted
UpdateConfigEnergyWitness ==
    \E p \in Procs :
        /\ Accepted(p) /\ req[p].op = "UpdateEnergyConfig"
        /\ hist[p].pre # Nil
        /\ hist[p].pre.CurrentEnergy = 50
        /\ req[p].MaxEnergy = 50
        /\ Stored(p).CurrentEnergy = 51
        /\ Stored(p).MaxEnergy = 50

(***************************************************************************)
(* C27  Every record persisted by the engine, after any sequence of         *)
(* operations with any arguments (also zero or negative updateConfig       *)
(* values), has maxEnergy > 0 and regenRateSeconds > 0.                    *)
(***************************************************************************)
ConfigPositive ==
    \A u \in Players :
        store[u] # Nil => store[u].MaxEnergy > 0 /\ store[u].RegenRateSeconds > 0

\* an updateConfig with negative values has been served
ConfigPositiveWitness ==
    \E p \in Procs :
        /\ Accepted(p) /\ req[p].op = "UpdateEnergyConfig"
        /\ req[p].MaxEnergy < 0 /\ req[p].RegenRateSeconds < 0
        /\ Stored(p).MaxEnergy > 0 /\ Stored(p).RegenRateSeconds > 0

(***************************************************************************)
(* C28  First access initializes: when get energy, consume, refill or       *)
(* updateConfig is called for a player without a record, a record with     *)
(* maxEnergy 100, regenRateSeconds 300, currentEnergy 100, level 1, empty  *)
(* inventory and lastUpdateTime equal to the time of the call is persisted *)
(* before the business rule is applied.                                    *)
(***************************************************************************)
InitializingOps ==
    {"GetMyEnergy", "GetEnergy", "ConsumeMyEnergy", "ConsumeEnergy", "RefillMyEnergy",
     "RefillEnergy", "UpdateEnergyConfig"}

InitialRecord(u, t) ==
    [UserId |-> u, CurrentEnergy |-> 100, MaxEnergy |-> 100, LastUpdateTime |-> t,
     RegenRateSeconds |-> 300, Level |-> 1, Inventory |-> NilMap]

FirstAccessInitializes ==
    \A p \in Procs :
        (req[p].op \in InitializingOps /\ hist[p].pre = Nil)
        => /\ pc[p] = "goc_calc"
              => /\ Stored(p) = InitialRecord(req[p].UserId, hist[p].initAt)
                 /\ hist[p].initAt <= clock
                 /\ hist[p].puts = 1
           /\ (pc[p] \in {"get2", "now", "save", "calc"} \/ Answered(p))
              => hist[p].puts >= 1
           /\ (Answered(p) /\ req[p].op \in {"GetMyEnergy", "GetEnergy"})
              => Stored(p) = InitialRecord(req[p].UserId, hist[p].initAt)

\* the record of a first-seen player has been persisted, the consume has not
\* been decided yet, and the clock has moved since the service started
FirstAccessWitness ==
    \E p \in Procs :
        /\ pc[p] = "goc_calc" /\ req[p].op = "ConsumeMyEnergy"
        /\ hist[p].pre = Nil
        /\ hist[p].initAt > T0
        /\ Stored(p) = InitialRecord(req[p].UserId, hist[p].initAt)

(***************************************************************************)
(* C29  A refill with a valid source (or a positive admin amount) on        *)
(* working storage always returns accepted = true, also when the derived   *)
(* energy is already at maxEnergy and the refill adds nothing.             *)
(***************************************************************************)
RefillAlwaysAccepted ==
    \A p \in Procs :
        ( /\ Returned(p)
          /\ req[p].op \in {"RefillMyEnergy", "RefillEnergy"}
          /\ ~InvalidInput(req[p]) )
        => Accepted(p)

\* a refill of a full record
RefillAcceptedWitness ==
    \E p \in Procs :
        /\ Accepted(p) /\ req[p].op = "RefillMyEnergy"
        /\ hist[p].pre # Nil
        /\ DerivedBefore(p, hist[p].calcAt) = hist[p].pre.MaxEnergy
        /\ Stored(p).CurrentEnergy = hist[p].pre.CurrentEnergy

PlayerScopedOps ==
    {"GetMyEnergy", "ConsumeMyEnergy", "RefillMyEnergy", "GetMyInventory",
     "GetMyEnergyConfig"}

\* the method of the call declares Bearer security or a permission
DeclaresAuth(info) == info.known /\ (info.bearer \/ info.permission # Nil)

\* the handler of the call of p has been invoked
Invoked(p) == pc[p] # "idle" /\ hist[p].seq > 0

\* the handler of p serves a call that has passed the authorization check
Authenticated(p) ==
    /\ Invoked(p)
    /\ DeclaresAuth(req[p].info)
    /\ extractUserIdFromToken(req[p].ctx).err = ""

Caller(p) == extractUserIdFromToken(req[p].ctx).userId

OwnRecordOnly ==
    \A p \in Procs :
        ( /\ pc[p] # "idle"
          /\ req[p].op \in PlayerScopedOps
          /\ Authenticated(p)
          /\ hist[p].gets + hist[p].puts > 0 )
        => req[p].UserId = Caller(p)

(***************************************************************************)
(* C32  Authorization precedes the engine: for a method that declares       *)
(* Bearer security or a permission, the handler has been invoked only when *)
(* the validator is set, the context has metadata with an authorization    *)
(* value and the validator accepts its token; otherwise the call has       *)
(* returned an error, the handler has not been invoked and no storage call *)
(* has been issued.                                                        *)
(***************************************************************************)
\* what the authorization check asks of a call
Authorized(call) ==
    /\ call.Validator # Nil
    /\ call.ctx.metadata
    /\ call.ctx.hasAuthorization
    /\ call.ctx.authorization # <<>>
    /\ call.ctx.authorization[1].accepted

AuthorizationFirst ==
    \A p \in Procs :
        (pc[p] # "idle" /\ DeclaresAuth(req[p].info))
        => IF Authorized(req[p])
           THEN Invoked(p)
           ELSE /\ Returned(p)
                /\ ret[p].code \in {"Internal", "Unauthenticated", "PermissionDenied"}
                /\ ~Invoked(p)
                /\ hist[p].gets = 0 /\ hist[p].puts = 0
                /\ loc[p] = NoLocals

\* a consume of a method that declares only a permission has passed the
\* check and written the record
AuthorizationFirstWitness ==
    \E p \in Procs :
        /\ Accepted(p) /\ req[p].op = "ConsumeMyEnergy"
        /\ ~req[p].info.bearer /\ req[p].info.permission # Nil
        /\ Authorized(req[p])
        /\ hist[p].puts > 0

\* a call of a method that declares only a permission, with a token the
\* validator rejects, has returned an error
AuthorizationRefusedWitness ==
    \E p \in Procs :
        /\ Returned(p) /\ ret[p].code = "PermissionDenied"
        /\ ~req[p].info.bearer /\ req[p].info.permission # Nil
        /\ ~Invoked(p)

(***************************************************************************)
(* C33  Deriving is repeatable: two get energy calls on an existing record  *)
(* that derive at the same clock value return identical derived states,    *)
(* and no step of a get energy call on an existing record changes a stored *)
(* record or issues a write.                                               *)
(***************************************************************************)
GetEnergyOps == {"GetMyEnergy", "GetEnergy"}

\* two get energy calls on an existing record have answered with what they
\* derived at the same clock value
SameDerivation(p, q) ==
    /\ Answered(p) /\ Answered(q)
    /\ req[p].op \in GetEnergyOps /\ req[q].op \in GetEnergyOps
    /\ req[p].UserId = req[q].UserId
    /\ hist[p].pre # Nil /\ hist[q].pre # Nil
    /\ hist[p].calcAt = hist[q].calcAt

GetRepeatable ==
    [][ /\ \A p, q \in Procs :
             SameDerivation(p, q)' => (ret[p].EnergyState = ret[q].EnergyState)'
        /\ \A p \in Procs :
             ( /\ pc[p] # "idle" /\ pc'[p] # pc[p]
               /\ req[p].op \in GetEnergyOps
               /\ hist[p].pre # Nil )
             => /\ store' = store
                /\ hist'[p].puts = hist[p].puts ]_vars

\* two get energy calls have derived the same regenerated record at the same
\* clock value, and the record still lags behind what they returned
GetRepeatableWitness ==
    \E p, q \in Procs :
        /\ p # q
        /\ Answered(p) /\ Answered(q)
        /\ req[p].op = "GetMyEnergy" /\ req[q].op = "GetMyEnergy"
        /\ hist[p].pre # Nil /\ hist[q].pre # Nil
        /\ hist[p].calcAt = hist[q].calcAt
        /\ hist[p].calcAt > T0
        /\ ret[p].EnergyState.CurrentEnergy > Stored(p).CurrentEnergy
        /\ ret[q].EnergyState = ret[p].EnergyState

(***************************************************************************)
(* C34  With requests served one after the other and a clock that never     *)
(* runs backwards, every write to a player's record stores a checkpoint    *)
(* that is at most the current time and, when the write replaces a record, *)
(* at least the checkpoint of the record it replaces.                      *)
(***************************************************************************)
CheckpointMonotone ==
    [][ \A u \in Players :
          (store'[u] # store[u] /\ store'[u] # Nil)
          => /\ store'[u].LastUpdateTime <= clock
             /\ store[u] # Nil => store'[u].LastUpdateTime >= store[u].LastUpdateTime ]_vars

\* a consume has moved the checkpoint forward by one whole regen interval,
\* to a time before the time of the write
CheckpointMonotoneWitness ==
    \E p \in Procs :
        /\ Accepted(p) /\ req[p].op = "ConsumeMyEnergy"
        /\ hist[p].pre # Nil
        /\ Stored(p).LastUpdateTime
             = hist[p].pre.LastUpdateTime + hist[p].pre.RegenRateSeconds
        /\ Stored(p).LastUpdateTime < loc[p].now

(***************************************************************************)
(* C35  The record initializer never overwrites an existing record: when    *)
(* two requests for the same first-seen player have both found no record   *)
(* and one of them has completed an accepted consume or refill whose       *)
(* record is the stored one, the default-record write of the other leaves  *)
(* that record in place.                                                   *)
(***************************************************************************)
InitializerKeepsRecords ==
    [][ \A p, q \in Procs :
          ( /\ p # q
            /\ pc[p] = "goc_save" /\ pc'[p] # "goc_save"
            /\ hist[p].pre = Nil /\ hist[q].pre = Nil
            /\ req[p].UserId = req[q].UserId
            /\ Accepted(q)
            /\ req[q].op \in {"ConsumeMyEnergy", "ConsumeEnergy",
                              "RefillMyEnergy", "RefillEnergy"}
            /\ store[req[q].UserId] = loc[q].updatedData )
          => store'[req[q].UserId] = store[req[q].UserId] ]_vars

====
